---- MODULE Spec2Model ----
(***************************************************************************)
(* Source-Graph backend: the Bluesky ingestion pipeline.                   *)
(*   bsky/client.py     BlueskyClient  (budget, cache-through, retries)    *)
(*   bsky/normalize.py  payload normalisation, thread and quote extraction *)
(*   bsky/ingest.py     query_mode / seed_mode crawl strategies            *)
(* Python None is the record None; exceptions are carried in an "exc"      *)
(* field ("" meaning that nothing was raised).                             *)
(***************************************************************************)
EXTENDS Integers, Sequences, FiniteSets, TLC

VARIABLES
    config,     \* IngestConfig of the client under study
    client,     \* BlueskyClient: _request_count, stats, _redis handle
    cache,      \* the shared Redis store: a set of entries, one per key
    call,       \* the get() call in progress / last finished, with its trace
    env,        \* history of the harness: number of calls, cache changes
    payload,    \* the raw upstream payload handed to the normalizer
    output,     \* what the normalizer made of it
    run         \* the crawl in progress: query_mode / seed_mode locals and result

vars == <<config, client, cache, call, env, payload, output, run>>

(***************************************************************************)
(* Bounds of the model                                                     *)
(***************************************************************************)
MaxBudgetBound == 2      \* max_requests_per_run ranges over 0..MaxBudgetBound
MaxRetriesBound == 2     \* max_retries ranges over 0..MaxRetriesBound
BackoffCap == 2          \* the configured max_backoff
MaxCalls == 2            \* get() calls issued on one client
MaxThreadNodes == 3      \* nodes of a thread payload
MaxDepthBound == 2       \* max_depth ranges over 0..MaxDepthBound
MaxQuotePosts == 3       \* raw posts on a quotes page
MaxPagesBound == 2       \* max_pages and max_quote_pages range over 0..MaxPagesBound
MaxNodesBound == 3       \* max_nodes ranges over 0..MaxNodesBound
MaxListLen == 3          \* posts or edges in a list handed to the deduplicators
MaxGraphPosts == 3       \* posts handed to the graph assembler; max_nodes ranges over 0..MaxGraphPosts

(***************************************************************************)
(* Program constants (IngestConfig defaults)                               *)
(***************************************************************************)
search_ttl == 120
thread_ttl == 600
quotes_ttl == 600
posts_ttl == 1800
initial_backoff == 1
LowBudget == 10          \* pagination stops when less than this budget remains

None == [tag |-> "None"]

\* the normalizer at rest: nothing handed in, nothing produced
NoPayload == [kind |-> "none"]
NoOutput == [done |-> FALSE]

\* no crawl under way
NoRun == [pc |-> "idle"]

Min(a, b) == IF a <= b THEN a ELSE b
Max(a, b) == IF a >= b THEN a ELSE b

(***************************************************************************)
(* Request parameters: a Python dict, i.e. an insertion-ordered sequence   *)
(* of key/value pairs with distinct keys.                                  *)
(***************************************************************************)
ParamNames == <<"cursor", "depth", "limit", "parentHeight", "q", "uri">>   \* in sort order

NameRank(n) == CHOOSE i \in 1..Len(ParamNames) : ParamNames[i] = n

RECURSIVE InsertSorted(_, _)
InsertSorted(pair, s) ==
    IF s = <<>> THEN <<pair>>
    ELSE IF NameRank(pair.k) <= NameRank(Head(s).k) THEN <<pair>> \o s
    ELSE <<Head(s)>> \o InsertSorted(pair, Tail(s))

RECURSIVE SortKeys(_)
\* json.dumps(params, sort_keys=True): the pairs in key order
SortKeys(params) ==
    IF params = <<>> THEN <<>>
    ELSE InsertSorted(Head(params), SortKeys(Tail(params)))

\* mutant: the key names the endpoint only
MakeCacheKeyOfEndpoint(endpoint, params) == <<"bsky", endpoint, <<>>>>

\* mutant: the parameters are hashed in insertion order
MakeCacheKeyUnsorted(endpoint, params) == <<"bsky", endpoint, params>>

\* _make_cache_key; the md5 digest is taken as injective on the dumped text
MakeCacheKey(endpoint, params) == <<"bsky", endpoint, SortKeys(params)>>

\* "name" in endpoint, for the endpoints app.bsky.<group>.<method>: none of
\* the method names tested is part of another endpoint's name
In(name, endpoint) == endpoint = "app.bsky.feed." \o name

\* _get_ttl_for_endpoint
GetTtlForEndpoint(cfg, endpoint) ==
    IF In("searchPosts", endpoint) THEN cfg.search_ttl
    ELSE IF In("getPostThread", endpoint) \/ In("getQuotes", endpoint)
         THEN cfg.thread_ttl
    ELSE IF In("getPosts", endpoint) THEN cfg.posts_ttl
    ELSE cfg.search_ttl

(***************************************************************************)
(* Redis values are strings.  json.dumps(data) is the text "json" carrying *)
(* the value; other writers may leave text that does not decode, or "".    *)
(***************************************************************************)
JsonDumps(data) == [text |-> "json", data |-> data]
Undecodable == [text |-> "garbage", data |-> None]
EmptyText == [text |-> "", data |-> None]

\* json.loads: the decoded value, or a raised ValueError
JsonLoads(stored) ==
    IF stored.text = "json" THEN [exc |-> "", value |-> stored.data]
    ELSE [exc |-> "ValueError", value |-> None]

HasEntry(ca, key) == \E e \in ca : e.key = key
EntryOf(ca, key) == CHOOSE e \in ca : e.key = key

\* redis GET: the stored string or None
RedisGet(ca, key) == IF HasEntry(ca, key) THEN EntryOf(ca, key).val ELSE None

\* redis SETEX: overwrite the key
RedisSetex(ca, key, ttl, val) ==
    {e \in ca : e.key # key} \cup {[key |-> key, val |-> val, ttl |-> ttl]}

\* mutant: a failing cache read propagates to the caller of get
GetFromCacheRaising(cl, ca, key, readFail) ==
    IF ~cl.redis THEN [exc |-> "", value |-> None, client |-> cl]
    ELSE IF readFail THEN [exc |-> "RedisError", value |-> None, client |-> cl]
    ELSE LET cached == RedisGet(ca, key) IN
         IF cached # None /\ cached.text # ""
         THEN LET hit == [cl EXCEPT !.cache_hits = @ + 1]
                  dec == JsonLoads(cached) IN
              IF dec.exc = "" THEN [exc |-> "", value |-> dec.value, client |-> hit]
              ELSE [exc |-> "", value |-> None, client |-> hit]
         ELSE [exc |-> "", value |-> None, client |-> cl]

\* _get_from_cache: value is the cached payload or None; never raises
GetFromCache(cl, ca, key, readFail) ==
    IF ~cl.redis THEN [exc |-> "", value |-> None, client |-> cl]
    ELSE IF readFail THEN [exc |-> "", value |-> None, client |-> cl]
    ELSE LET cached == RedisGet(ca, key) IN
         IF cached # None /\ cached.text # ""
         THEN LET hit == [cl EXCEPT !.cache_hits = @ + 1]
                  dec == JsonLoads(cached) IN
              IF dec.exc = "" THEN [exc |-> "", value |-> dec.value, client |-> hit]
              ELSE [exc |-> "", value |-> None, client |-> hit]
         ELSE [exc |-> "", value |-> None, client |-> cl]

\* _set_cache: the cache after the write; a failed write changes nothing
SetCache(cl, ca, key, data, ttl, writeFail) ==
    IF ~cl.redis THEN ca
    ELSE IF writeFail THEN ca
    ELSE RedisSetex(ca, key, ttl, JsonDumps(data))

\* _check_budget
BudgetExhausted(cl, cfg) == cl.request_count >= cfg.max_requests_per_run

\* get_remaining_budget
GetRemainingBudget(cl, cfg) == Max(0, cfg.max_requests_per_run - cl.request_count)

(***************************************************************************)
(* Upstream answers to one network attempt                                 *)
(***************************************************************************)
NoHeader == [present |-> FALSE, text |-> ""]
NoBody == [valid |-> FALSE, data |-> None]
NoSleep == [slept |-> FALSE, base |-> 0, jitter |-> FALSE]
NoOutcome == [kind |-> "none", status |-> 0, retry_after |-> NoHeader, body |-> NoBody]

TransportError ==
    [kind |-> "transport_error", status |-> 0, retry_after |-> NoHeader, body |-> NoBody]

Response(status, header, body) ==
    [kind |-> "response", status |-> status, retry_after |-> header, body |-> body]

\* Retry-After header values: seconds as text, an empty value, an HTTP date
RetryAfterHeaders ==
    {NoHeader} \cup {[present |-> TRUE, text |-> t] : t \in {"", "0", "2", "soon"}}

\* float(text): the number, or a raised ValueError
ParseFloat(text) ==
    IF text = "0" THEN [exc |-> "", value |-> 0]
    ELSE IF text = "2" THEN [exc |-> "", value |-> 2]
    ELSE [exc |-> "ValueError", value |-> 0]

\* the retry-after header is truthy: present and not the empty string
HeaderTruthy(h) == h.present /\ h.text # ""

ErrorOutcomes ==
    {TransportError, Response(404, NoHeader, NoBody), Response(503, NoHeader, NoBody)}
        \cup {Response(429, h, NoBody) : h \in RetryAfterHeaders}

\* a 2xx answer: a JSON body carrying data (possibly null), or a body that does not parse
OkOutcomes(datas) ==
    {Response(200, NoHeader, [valid |-> TRUE, data |-> d]) : d \in datas \cup {None}}
        \cup {Response(200, NoHeader, NoBody)}

(***************************************************************************)
(* BlueskyClient.get, one step per network round trip                      *)
(***************************************************************************)
NewClient(redisUp) ==
    [request_count |-> 0, total_requests |-> 0, cache_hits |-> 0,
     cache_misses |-> 0, failed_requests |-> 0, redis |-> redisUp]

NoResult == [exc |-> "", value |-> None]

IdleCall ==
    [pc |-> "idle", endpoint |-> "", params |-> <<>>, cache_key |-> <<>>, ttl |-> 0,
     attempt |-> 0, backoff |-> 0, result |-> NoResult,
     \* trace of the call, read by the properties only
     net |-> 0, hit |-> FALSE,
     read_fail |-> FALSE, write_fail |-> FALSE, wrote |-> FALSE,
     last |-> NoOutcome, backoff_at |-> 0, sleep |-> NoSleep, malformed |-> FALSE]

Raise(c, exc) == [c EXCEPT !.pc = "done", !.result = [exc |-> exc, value |-> None]]
Return(c, value) == [c EXCEPT !.pc = "done", !.result = [exc |-> "", value |-> value]]

\* mutant: the loop admits one attempt too many
LoopOrFailOffByOne(c, cfg) ==
    IF c.attempt <= cfg.max_retries THEN [c EXCEPT !.pc = "loop"]
    ELSE Raise(c, "RuntimeError: failed after attempts")

\* the while test of the retry loop, and the raise that follows the loop
LoopOrFail(c, cfg) ==
    IF c.attempt < cfg.max_retries THEN [c EXCEPT !.pc = "loop"]
    ELSE Raise(c, "RuntimeError: failed after attempts")

\* mutant: the cache is consulted before the budget is checked
GetEnterCacheFirst(cl, ca, cfg, endpoint, params, readFail) ==
    LET key == MakeCacheKey(endpoint, params)
        ttl == GetTtlForEndpoint(cfg, endpoint)
        c0 == [IdleCall EXCEPT !.endpoint = endpoint, !.params = params,
                               !.read_fail = readFail,
                               !.cache_key = key, !.ttl = ttl]
        got == GetFromCache(cl, ca, key, readFail)
    IN  IF got.value # None
        THEN [client |-> got.client, call |-> Return([c0 EXCEPT !.hit = TRUE], got.value)]
        ELSE IF BudgetExhausted(cl, cfg)
        THEN [client |-> got.client, call |-> Raise(c0, "RuntimeError: budget exhausted")]
        ELSE [client |-> [got.client EXCEPT !.cache_misses = @ + 1],
              call |-> LoopOrFail([c0 EXCEPT !.attempt = 0,
                                             !.backoff = cfg.initial_backoff], cfg)]

\* get, up to the first network attempt
GetEnter(cl, ca, cfg, endpoint, params, readFail) ==
    LET c0 == [IdleCall EXCEPT !.endpoint = endpoint, !.params = params,
                               !.read_fail = readFail]
    IN  IF BudgetExhausted(cl, cfg)
        THEN [client |-> cl, call |-> Raise(c0, "RuntimeError: budget exhausted")]
        ELSE
        LET key == MakeCacheKey(endpoint, params)
            ttl == GetTtlForEndpoint(cfg, endpoint)
            c1 == [c0 EXCEPT !.cache_key = key, !.ttl = ttl]
            got == GetFromCache(cl, ca, key, readFail)
        IN  IF got.exc # ""
            THEN [client |-> got.client, call |-> Raise(c1, got.exc)]
            ELSE IF got.value # None
            THEN [client |-> got.client, call |-> Return([c1 EXCEPT !.hit = TRUE], got.value)]
            ELSE [client |-> [got.client EXCEPT !.cache_misses = @ + 1],
                  call |-> LoopOrFail([c1 EXCEPT !.attempt = 0,
                                                 !.backoff = cfg.initial_backoff], cfg)]

DoubleBackoff(c, cfg) == Min(c.backoff * 2, cfg.max_backoff)

\* sleep, double the backoff, count the attempt, go round the loop
BackoffAndRetry(c, cfg, sleep) ==
    LoopOrFail([c EXCEPT !.sleep = sleep, !.backoff = DoubleBackoff(c, cfg),
                         !.attempt = @ + 1], cfg)

\* mutant: a rate-limited attempt always sleeps the backoff value plus jitter
RateLimitWaitIgnoringHeader(c, header) ==
    [exc |-> "", sleep |-> [slept |-> TRUE, base |-> c.backoff, jitter |-> TRUE]]

\* wait_time of a 429 answer
RateLimitWait(c, header) ==
    IF HeaderTruthy(header)
    THEN LET f == ParseFloat(header.text) IN
         [exc |-> f.exc, sleep |-> [slept |-> TRUE, base |-> f.value, jitter |-> FALSE]]
    ELSE [exc |-> "", sleep |-> [slept |-> TRUE, base |-> c.backoff, jitter |-> TRUE]]

\* mutant: the error is retried without being counted
OnHttpErrorUncounted(cl, ca, cfg, c) ==
    IF c.attempt >= cfg.max_retries - 1
    THEN [client |-> cl, cache |-> ca, call |-> Raise(c, "RuntimeError: max retries reached")]
    ELSE LET b == DoubleBackoff(c, cfg) IN
         [client |-> cl, cache |-> ca,
          call |-> [c EXCEPT !.backoff = b, !.attempt = @ + 1, !.pc = "loop",
                             !.sleep = [slept |-> TRUE, base |-> b, jitter |-> TRUE]]]

\* except httpx.HTTPError
OnHttpError(cl, ca, cfg, c) ==
    LET cl1 == [cl EXCEPT !.failed_requests = @ + 1] IN
    IF c.attempt >= cfg.max_retries - 1
    THEN [client |-> cl1, cache |-> ca, call |-> Raise(c, "RuntimeError: max retries reached")]
    ELSE LET b == DoubleBackoff(c, cfg) IN
         [client |-> cl1, cache |-> ca,
          call |-> [c EXCEPT !.backoff = b, !.attempt = @ + 1, !.pc = "loop",
                             !.sleep = [slept |-> TRUE, base |-> b, jitter |-> TRUE]]]

\* one iteration of the retry loop, answered by outcome o
GetAttempt(cl, ca, cfg, call0, o, writeFail) ==
    LET cl1 == [cl EXCEPT !.request_count = @ + 1, !.total_requests = @ + 1]
        c == [call0 EXCEPT !.net = @ + 1, !.last = o, !.backoff_at = call0.backoff,
                           !.sleep = NoSleep]
    IN  IF o.kind = "transport_error" THEN OnHttpError(cl1, ca, cfg, c)
        ELSE IF o.status = 429
        THEN LET w == RateLimitWait(c, o.retry_after) IN
             IF w.exc # ""
             THEN [client |-> cl1, cache |-> ca,
                   call |-> Raise([c EXCEPT !.malformed = TRUE], w.exc)]
             ELSE [client |-> cl1, cache |-> ca, call |-> BackoffAndRetry(c, cfg, w.sleep)]
        ELSE IF o.status >= 500
        THEN [client |-> cl1, cache |-> ca,
              call |-> BackoffAndRetry(c, cfg,
                          [slept |-> TRUE, base |-> c.backoff, jitter |-> TRUE])]
        ELSE IF o.status >= 400 THEN OnHttpError(cl1, ca, cfg, c)
        ELSE IF ~o.body.valid
        THEN [client |-> cl1, cache |-> ca,
              call |-> Raise([c EXCEPT !.malformed = TRUE], "ValueError")]
        ELSE [client |-> cl1,
              cache |-> SetCache(cl1, ca, c.cache_key, o.body.data, c.ttl, writeFail),
              call |-> Return([c EXCEPT !.write_fail = writeFail,
                                        !.wrote = cl1.redis /\ ~writeFail], o.body.data)]

(***************************************************************************)
(* normalize.py.  A JSON object is a record holding the keys it has, so    *)
(* dict.get(k, default) is DictGet.  Optional[str] is <<>> or <<text>>.    *)
(***************************************************************************)
DictGet(d, k, default) == IF k \in DOMAIN d THEN d[k] ELSE default

\* "not d.get(k)" for a text field: the key is missing or holds ""
Falsy(d, k) == k \notin DOMAIN d \/ d[k] = ""

\* the timestamps upstream sends, with the instants they denote
KnownTimestamps ==
    [t \in {"2024-01-15T10:00:00.000Z", "2024-01-15T10:05:00+00:00"} |->
        IF t = "2024-01-15T10:00:00.000Z" THEN 600 ELSE 605]

\* parse_timestamp: the instant, or absent
ParseTimestamp(text) ==
    IF text = "" THEN [ok |-> FALSE, t |-> 0]
    ELSE IF text \in DOMAIN KnownTimestamps THEN [ok |-> TRUE, t |-> KnownTimestamps[text]]
    ELSE [ok |-> FALSE, t |-> 0]

NoPost ==
    [uri |-> "", cid |-> <<>>, author_did |-> "", author_handle |-> "",
     created_at |-> [kind |-> "now", t |-> 0], text |-> "",
     metrics |-> [like_count |-> 0, repost_count |-> 0, reply_count |-> 0, quote_count |-> 0]]

\* return None inside normalize_post
Absent == [ok |-> FALSE, post |-> NoPost, exc |-> ""]

\* .get called on a JSON null: AttributeError inside the try block
Threw(e) == [ok |-> FALSE, post |-> NoPost, exc |-> e]

\* the try block of normalize_post: a Post, None, or an exception on its way
\* to the handler
NormalizePostBody(post_data) ==
    IF post_data = None THEN Threw("AttributeError")
    ELSE IF Falsy(post_data, "uri") THEN Absent
    ELSE
    LET author == DictGet(post_data, "author", <<>>) IN
    IF author = None THEN Threw("AttributeError")
    ELSE IF Falsy(author, "did") \/ Falsy(author, "handle") THEN Absent
    ELSE
    LET record == DictGet(post_data, "record", <<>>) IN
    IF record = None THEN Threw("AttributeError")
    ELSE
    LET created_at_str ==
            IF ~Falsy(record, "createdAt") THEN record.createdAt
            ELSE DictGet(post_data, "indexedAt", "")
        parsed == ParseTimestamp(created_at_str)
    IN  [ok |-> TRUE, exc |-> "",
         post |->
            [uri |-> post_data.uri,
             cid |-> IF "cid" \in DOMAIN post_data THEN <<post_data.cid>> ELSE <<>>,
             author_did |-> author.did,
             author_handle |-> author.handle,
             created_at |-> IF parsed.ok THEN [kind |-> "parsed", t |-> parsed.t]
                            ELSE [kind |-> "now", t |-> 0],
             text |-> DictGet(record, "text", ""),
             metrics |->
                [like_count |-> DictGet(post_data, "likeCount", 0),
                 repost_count |-> DictGet(post_data, "repostCount", 0),
                 reply_count |-> DictGet(post_data, "replyCount", 0),
                 quote_count |-> DictGet(post_data, "quoteCount", 0)]]]

\* mutant: no except clause around the body
NormalizePostUncaught(post_data) == NormalizePostBody(post_data)

\* normalize_post: ok with the Post, or not ok (None); except Exception: return None
NormalizePost(post_data) ==
    LET r == NormalizePostBody(post_data) IN
    IF r.exc # "" THEN Absent ELSE r

\* mutant: the timestamp takes part in an edge's identity
EdgeKeyWithTimestamp(e) == <<e.src_uri, e.dst_uri, e.edge_type, e.created_at>>

\* Edge.__eq__: identity is the (src, dst, type) triple
EdgeKey(e) == <<e.src_uri, e.dst_uri, e.edge_type>>
EdgeIn(e, edges) == \E i \in DOMAIN edges : EdgeKey(edges[i]) = EdgeKey(e)

\* posts[post.uri] = post on an insertion-ordered dict kept as a sequence
DictPut(posts, post) ==
    IF \E i \in DOMAIN posts : posts[i].uri = post.uri
    THEN [i \in DOMAIN posts |-> IF posts[i].uri = post.uri THEN post ELSE posts[i]]
    ELSE Append(posts, post)

(***************************************************************************)
(* A thread payload.  The nested tree is kept flat: node 1 is the root and *)
(* node n > 1 hangs under node attach, either as its "parent" member or as *)
(* the next element of its "replies" list (replies are in node order).     *)
(***************************************************************************)
ViewPost == "app.bsky.feed.defs#threadViewPost"
BlockedPost == "app.bsky.feed.defs#blockedPost"
NotFoundPost == "app.bsky.feed.defs#notFoundPost"

ParentOf(tree, n) ==
    {m \in DOMAIN tree : tree[m].attach = n /\ tree[m].rel = "parent"}

RECURSIVE RepliesFrom(_, _, _)
\* node.get("replies", []) from node m on, in list order
RepliesFrom(tree, n, m) ==
    IF m > Len(tree) THEN <<>>
    ELSE IF tree[m].attach = n /\ tree[m].rel = "reply"
         THEN <<m>> \o RepliesFrom(tree, n, m + 1)
    ELSE RepliesFrom(tree, n, m + 1)

\* mutant: the depth test lets one more level through
DepthExhaustedOffByOne(current_depth, max_depth) == current_depth > max_depth

\* if current_depth >= max_depth: return None
DepthExhausted(current_depth, max_depth) == current_depth >= max_depth

ReplyEdge(post, parent_uri) ==
    [src_uri |-> post.uri, dst_uri |-> parent_uri, edge_type |-> "REPLY",
     created_at |-> post.created_at]

RECURSIVE NormalizeThreadNode(_, _, _, _, _, _)
RECURSIVE NormalizeReplies(_, _, _, _, _, _)

\* the for loop over replies
NormalizeReplies(tree, replies, acc, parent_uri, max_depth, current_depth) ==
    IF replies = <<>> THEN acc
    ELSE NormalizeReplies(tree, Tail(replies),
             NormalizeThreadNode(tree, Head(replies), acc, parent_uri,
                                 max_depth, current_depth),
             parent_uri, max_depth, current_depth)

\* normalize_thread_node: acc is (posts, edges); parent_uri "" is None
NormalizeThreadNode(tree, n, acc, parent_uri, max_depth, current_depth) ==
    IF DepthExhausted(current_depth, max_depth) THEN acc
    ELSE IF tree[n].type = ViewPost
    THEN IF "post" \notin DOMAIN tree[n] THEN acc
         ELSE
         LET norm == NormalizePost(tree[n].post) IN
         IF ~norm.ok THEN acc
         ELSE
         LET post == norm.post
             posts1 == DictPut(acc.posts, post)
             edge == ReplyEdge(post, parent_uri)
             edges1 == IF parent_uri # "" /\ ~EdgeIn(edge, acc.edges)
                       THEN Append(acc.edges, edge) ELSE acc.edges
             acc1 == [posts |-> posts1, edges |-> edges1]
             parent_node == ParentOf(tree, n)
             acc2 == IF parent_node # {}
                     THEN NormalizeThreadNode(tree, CHOOSE m \in parent_node : TRUE, acc1,
                                              post.uri, max_depth, current_depth + 1)
                     ELSE acc1
         IN  NormalizeReplies(tree, RepliesFrom(tree, n, 1), acc2, post.uri,
                              max_depth, current_depth + 1)
    ELSE acc

\* extract_thread_posts_and_edges
ExtractThreadPostsAndEdges(thread_response, max_depth) ==
    IF "thread" \notin DOMAIN thread_response THEN [posts |-> <<>>, edges |-> <<>>]
    ELSE NormalizeThreadNode(thread_response.thread, 1, [posts |-> <<>>, edges |-> <<>>],
                             "", max_depth, 0)

\* mutant: the quote edge is built the wrong way round
QuoteEdgeReversed(post, target_uri) ==
    [src_uri |-> target_uri, dst_uri |-> post.uri, edge_type |-> "QUOTE",
     created_at |-> post.created_at]

QuoteEdge(post, target_uri) ==
    [src_uri |-> post.uri, dst_uri |-> target_uri, edge_type |-> "QUOTE",
     created_at |-> post.created_at]

RECURSIVE ExtractQuoteEdges(_, _)
\* extract_quote_edges
ExtractQuoteEdges(quote_posts, target_uri) ==
    IF quote_posts = <<>> THEN [posts |-> <<>>, edges |-> <<>>]
    ELSE LET norm == NormalizePost(Head(quote_posts))
             rest == ExtractQuoteEdges(Tail(quote_posts), target_uri)
         IN  IF ~norm.ok THEN rest
             ELSE [posts |-> <<norm.post>> \o rest.posts,
                   edges |-> <<QuoteEdge(norm.post, target_uri)>> \o rest.edges]

RECURSIVE DeduplicatePostsFrom(_, _, _)
DeduplicatePostsFrom(posts, seen, deduped) ==
    IF posts = <<>> THEN deduped
    ELSE IF Head(posts).uri \notin seen
         THEN DeduplicatePostsFrom(Tail(posts), seen \cup {Head(posts).uri},
                                   Append(deduped, Head(posts)))
    ELSE DeduplicatePostsFrom(Tail(posts), seen, deduped)

\* mutant: the later occurrence of a URI wins
DeduplicatePostsKeepLast(posts) ==
    LET n == Len(posts)
        kept == {i \in 1..n : \A j \in (i + 1)..n : posts[j].uri # posts[i].uri}
        Pick(k) == CHOOSE i \in kept : Cardinality({j \in kept : j < i}) = k - 1
    IN  [k \in 1..Cardinality(kept) |-> posts[Pick(k)]]

\* deduplicate_posts
DeduplicatePosts(posts) == DeduplicatePostsFrom(posts, {}, <<>>)

RECURSIVE DeduplicateEdgesFrom(_, _, _)
DeduplicateEdgesFrom(edges, seen, deduped) ==
    IF edges = <<>> THEN deduped
    ELSE IF EdgeKey(Head(edges)) \notin seen
         THEN DeduplicateEdgesFrom(Tail(edges), seen \cup {EdgeKey(Head(edges))},
                                   Append(deduped, Head(edges)))
    ELSE DeduplicateEdgesFrom(Tail(edges), seen, deduped)

\* deduplicate_edges
DeduplicateEdges(edges) == DeduplicateEdgesFrom(edges, {}, <<>>)

(***************************************************************************)
(* One client driven by a caller: get calls and the cache's expiry         *)
(***************************************************************************)
Configs ==
    [max_requests_per_run : 0..MaxBudgetBound, max_retries : 0..MaxRetriesBound,
     initial_backoff : {initial_backoff}, max_backoff : {BackoffCap},
     search_ttl : {search_ttl}, thread_ttl : {thread_ttl},
     quotes_ttl : {quotes_ttl}, posts_ttl : {posts_ttl}]

Payloads == {[tag |-> "obj", id |-> "A"]}

SearchEndpoint == "app.bsky.feed.searchPosts"
ThreadEndpoint == "app.bsky.feed.getPostThread"
QuotesEndpoint == "app.bsky.feed.getQuotes"

\* the calls the caller makes: the same search with its parameters in either
\* insertion order, and a quotes lookup
ClientRequests ==
    {[endpoint |-> SearchEndpoint,
      params |-> <<[k |-> "q", v |-> "cats"], [k |-> "limit", v |-> "25"]>>],
     [endpoint |-> SearchEndpoint,
      params |-> <<[k |-> "limit", v |-> "25"], [k |-> "q", v |-> "cats"]>>],
     [endpoint |-> QuotesEndpoint, params |-> <<[k |-> "uri", v |-> "at://seed"]>>]}

\* what earlier runs may have left in the shared cache under the search key
LeftByOthers ==
    LET key == MakeCacheKey(SearchEndpoint,
                   <<[k |-> "q", v |-> "cats"], [k |-> "limit", v |-> "25"]>>)
    IN  {[key |-> key, val |-> v, ttl |-> search_ttl] :
            v \in {JsonDumps([tag |-> "obj", id |-> "B"]), JsonDumps(None),
                   Undecodable, EmptyText}}

InitialCaches == {{}} \cup {{e} : e \in LeftByOthers}

\* what the caller remembers of the call before the current one: whether it
\* fetched a JSON object from the network and cached it, and at what cost
NoPrev == [fetched |-> FALSE, endpoint |-> "", params |-> <<>>, value |-> None, net |-> 0]

Remember(c) ==
    IF c.pc = "done" /\ c.result.exc = "" /\ c.result.value # None /\ ~c.hit /\ c.wrote
    THEN [fetched |-> TRUE, endpoint |-> c.endpoint, params |-> c.params,
          value |-> c.result.value, net |-> c.net]
    ELSE NoPrev

NoHistory == [calls |-> 0, touched |-> FALSE, prev |-> NoPrev]

Init ==
    /\ config \in Configs
    /\ client \in {NewClient(up) : up \in BOOLEAN}
    /\ cache \in IF client.redis THEN InitialCaches ELSE {{}}
    /\ call = IdleCall
    /\ env = NoHistory
    /\ payload = NoPayload
    /\ output = NoOutput
    /\ run = NoRun

\* the caller invokes get(endpoint, params)
Get(req, readFail) ==
    /\ call.pc # "loop"
    /\ readFail => client.redis
    /\ env.calls < MaxCalls
    /\ LET r == GetEnter(client, cache, config, req.endpoint, req.params, readFail) IN
       /\ client' = r.client
       /\ call' = r.call
    /\ env' = [env EXCEPT !.calls = @ + 1, !.touched = FALSE, !.prev = Remember(call)]
    /\ UNCHANGED <<config, cache, payload, output, run>>

\* the upstream answers the pending network request
Attempt(o, writeFail) ==
    /\ call.pc = "loop"
    /\ writeFail => client.redis /\ o.status = 200 /\ o.body.valid
    /\ LET r == GetAttempt(client, cache, config, call, o, writeFail) IN
       /\ client' = r.client
       /\ cache' = r.cache
       /\ call' = r.call
    /\ UNCHANGED <<config, env, payload, output, run>>

\* an entry's TTL runs out
Expire(e) ==
    /\ e \in cache
    /\ cache' = cache \ {e}
    /\ env' = [env EXCEPT !.touched = TRUE]
    /\ UNCHANGED <<config, client, call, payload, output, run>>

Next ==
    \/ \E req \in ClientRequests, readFail \in BOOLEAN : Get(req, readFail)
    \/ \E o \in ErrorOutcomes \cup OkOutcomes(Payloads), writeFail \in BOOLEAN :
           Attempt(o, writeFail)
    \/ \E e \in cache : Expire(e)

Spec == Init /\ [][Next]_vars

(***************************************************************************)
(* Two clients of unrelated runs over the one cache.  Each has its own     *)
(* counters and its own call in progress; a step is one client's cache     *)
(* read (GET) or one network round trip with its cache write (SETEX).      *)
(***************************************************************************)
Clients == {1, 2}

SharedConfigs ==
    {c \in Configs : c.max_requests_per_run = MaxBudgetBound /\ c.max_retries = 1}

\* the upstream's answer changes over time
SharedPayloads == {[tag |-> "obj", id |-> "A"], [tag |-> "obj", id |-> "B"]}

SharedOutcomes ==
    {TransportError}
        \cup {Response(200, NoHeader, [valid |-> TRUE, data |-> d]) : d \in SharedPayloads}

\* the same search with its parameters in either order, and another search
SharedRequests ==
    {[endpoint |-> SearchEndpoint,
      params |-> <<[k |-> "q", v |-> "cats"], [k |-> "limit", v |-> "25"]>>],
     [endpoint |-> SearchEndpoint,
      params |-> <<[k |-> "limit", v |-> "25"], [k |-> "q", v |-> "cats"]>>],
     [endpoint |-> SearchEndpoint,
      params |-> <<[k |-> "q", v |-> "dogs"], [k |-> "limit", v |-> "25"]>>]}

\* kept for the record: the calls each client made, and the payloads the
\* upstream answered with, by endpoint and parameters
InitShared ==
    /\ config \in SharedConfigs
    /\ client = [i \in Clients |-> NewClient(TRUE)]
    /\ cache = {}
    /\ call = [i \in Clients |-> IdleCall]
    /\ env = [calls |-> [i \in Clients |-> 0], answered |-> {}]
    /\ payload = NoPayload
    /\ output = NoOutput
    /\ run = NoRun

\* client i invokes get(endpoint, params)
GetBy(i, req) ==
    /\ "answered" \in DOMAIN env
    /\ call[i].pc # "loop"
    /\ env.calls[i] < MaxCalls
    /\ LET r == GetEnter(client[i], cache, config, req.endpoint, req.params, FALSE) IN
       /\ client' = [client EXCEPT ![i] = r.client]
       /\ call' = [call EXCEPT ![i] = r.call]
    /\ env' = [env EXCEPT !.calls[i] = @ + 1]
    /\ UNCHANGED <<config, cache, payload, output, run>>

\* the upstream answers client i's pending request
AttemptBy(i, o) ==
    /\ "answered" \in DOMAIN env
    /\ call[i].pc = "loop"
    /\ LET r == GetAttempt(client[i], cache, config, call[i], o, FALSE) IN
       /\ client' = [client EXCEPT ![i] = r.client]
       /\ cache' = r.cache
       /\ call' = [call EXCEPT ![i] = r.call]
    /\ env' = IF o.kind = "response" /\ o.status = 200 /\ o.body.valid
              THEN [env EXCEPT !.answered =
                       @ \cup {<<call[i].endpoint, SortKeys(call[i].params), o.body.data>>}]
              ELSE env
    /\ UNCHANGED <<config, payload, output, run>>

\* an entry's TTL runs out
ExpireShared(e) ==
    /\ "answered" \in DOMAIN env
    /\ e \in cache
    /\ cache' = cache \ {e}
    /\ UNCHANGED <<config, client, call, env, payload, output, run>>

NextShared ==
    \/ \E i \in Clients, req \in SharedRequests : GetBy(i, req)
    \/ \E i \in Clients, o \in SharedOutcomes : AttemptBy(i, o)
    \/ \E e \in cache : ExpireShared(e)

SpecShared == InitShared /\ [][NextShared]_vars

(***************************************************************************)
(* The client under configurations that override the TTL settings          *)
(***************************************************************************)
PostsEndpoint == "app.bsky.feed.getPosts"
ProfileEndpoint == "app.bsky.actor.getProfile"

\* each TTL setting left at its default or overridden
TtlConfigs ==
    [max_requests_per_run : {MaxBudgetBound}, max_retries : {1},
     initial_backoff : {initial_backoff}, max_backoff : {BackoffCap},
     search_ttl : {search_ttl, 11}, thread_ttl : {thread_ttl, 12},
     quotes_ttl : {quotes_ttl, 13}, posts_ttl : {posts_ttl, 14}]

\* one lookup per endpoint
TtlRequests ==
    {[endpoint |-> e, params |-> <<[k |-> "uri", v |-> "at://seed"]>>] :
        e \in {SearchEndpoint, ThreadEndpoint, QuotesEndpoint, PostsEndpoint,
               ProfileEndpoint}}

InitTtl ==
    /\ config \in TtlConfigs
    /\ client = NewClient(TRUE)
    /\ cache = {}
    /\ call = IdleCall
    /\ env = NoHistory
    /\ payload = NoPayload
    /\ output = NoOutput
    /\ run = NoRun

NextTtl ==
    \/ \E req \in TtlRequests : Get(req, FALSE)
    \/ \E o \in {Response(503, NoHeader, NoBody)} \cup OkOutcomes(Payloads) :
           Attempt(o, FALSE)
    \/ \E e \in cache : Expire(e)

SpecTtl == InitTtl /\ [][NextTtl]_vars

(***************************************************************************)
(* The normalizer applied to bounded payloads                              *)
(***************************************************************************)
Uris == <<"at://a", "at://b", "at://c", "at://d", "at://e">>

\* a well-formed raw post; the text tells apart payloads sharing a URI
RawPost(uri, text) ==
    [uri |-> uri, cid |-> "cid",
     author |-> [did |-> "did:plc:x", handle |-> "x.bsky.social"],
     record |-> [text |-> text, createdAt |-> "2024-01-15T10:00:00.000Z"],
     likeCount |-> 1]

\* raw posts that do not normalize: no author handle, no URI
MalformedPosts ==
    {[uri |-> "at://m", author |-> [did |-> "did:plc:x"], record |-> [text |-> "m"]],
     [author |-> [did |-> "did:plc:x", handle |-> "x.bsky.social"],
      record |-> [text |-> "n", createdAt |-> "2024-01-15T10:05:00+00:00"]]}

\* the kinds of node: a present post carrying its own URI ("post") or the
\* root's ("same"), a present node whose post is malformed or missing, a
\* blocked, a not-found and an unrecognized node
NodeKinds == {"post", "same", "malformed", "nopost", "blocked", "notfound", "other"}

\* the node of kind k at position n, hanging under attach as rel
Node(n, k, attach, rel) ==
    IF k = "post"
    THEN [type |-> ViewPost, post |-> RawPost(Uris[n], Uris[n]),
          attach |-> attach, rel |-> rel]
    ELSE IF k = "same"
    THEN [type |-> ViewPost, post |-> RawPost(Uris[1], Uris[n]),
          attach |-> attach, rel |-> rel]
    ELSE IF k = "malformed"
    THEN [type |-> ViewPost, post |-> [uri |-> "at://m", author |-> [did |-> "did:plc:x"]],
          attach |-> attach, rel |-> rel]
    ELSE [type |-> IF k = "nopost" THEN ViewPost
                   ELSE IF k = "blocked" THEN BlockedPost
                   ELSE IF k = "notfound" THEN NotFoundPost
                   ELSE "app.bsky.feed.defs#other",
          attach |-> attach, rel |-> rel]

RECURSIVE Shapes(_)
\* the shapes of a tree of n nodes: where each node hangs, and how; a node
\* has at most one parent member
Shapes(n) ==
    IF n = 1 THEN {<<[attach |-> 0, rel |-> "root"]>>}
    ELSE UNION {
            {Append(t, [attach |-> a, rel |-> "reply"]) : a \in 1..(n - 1)}
                \cup {Append(t, [attach |-> a, rel |-> "parent"]) :
                        a \in {m \in 1..(n - 1) : ParentOf(t, m) = {}}}
            : t \in Shapes(n - 1)}

IsThreadPayload(p) ==
    \/ \E d \in 0..MaxDepthBound :
          p = [kind |-> "thread", thread_response |-> [cursor |-> ""], max_depth |-> d]
    \/ \E n \in 1..MaxThreadNodes, d \in 0..MaxDepthBound :
       \E shape \in Shapes(n), kinds \in [1..n -> NodeKinds] :
          p = [kind |-> "thread", max_depth |-> d,
               thread_response |->
                  [thread |-> [i \in 1..n |->
                                  Node(i, kinds[i], shape[i].attach, shape[i].rel)]]]

RECURSIVE SeqsUpTo(_, _)
SeqsUpTo(S, n) ==
    IF n = 0 THEN {<<>>}
    ELSE LET shorter == SeqsUpTo(S, n - 1) IN
         shorter \cup {Append(q, x) : q \in shorter, x \in S}

QuotePayloads ==
    {[kind |-> "quotes", quote_posts |-> q, target_uri |-> t] :
        q \in SeqsUpTo({RawPost(Uris[2], "q1"), RawPost(Uris[3], "q2")}
                          \cup MalformedPosts, MaxQuotePosts),
        t \in {Uris[1], Uris[2]}}

\* a raw post assembled member by member; each member is named by its variant
UriVariants == {"absent", "empty", "present"}
UriOf(u) ==
    IF u = "absent" THEN <<>> ELSE "uri" :> (IF u = "empty" THEN "" ELSE Uris[1])

CidVariants == {"absent", "present"}
CidOf(c) == IF c = "absent" THEN <<>> ELSE "cid" :> "cid"

\* author: missing, JSON null, without did, without handle, empty handle, complete
AuthorVariants == {"absent", "null", "nodid", "nohandle", "emptyhandle", "full"}
AuthorOf(a) ==
    IF a = "absent" THEN <<>>
    ELSE "author" :>
            (IF a = "null" THEN None
             ELSE IF a = "nodid" THEN [handle |-> "x.bsky.social"]
             ELSE IF a = "nohandle" THEN [did |-> "did:plc:x"]
             ELSE IF a = "emptyhandle" THEN [did |-> "did:plc:x", handle |-> ""]
             ELSE [did |-> "did:plc:x", handle |-> "x.bsky.social"])

\* record: missing, JSON null, {}, text only, text with a createdAt that
\* parses, that does not parse, that is empty
RecordVariants == {"absent", "null", "empty", "text", "dated", "garbled", "undated"}
RecordOf(r) ==
    IF r = "absent" THEN <<>>
    ELSE "record" :>
            (IF r = "null" THEN None
             ELSE IF r = "empty" THEN <<>>
             ELSE IF r = "text" THEN [text |-> "hello"]
             ELSE IF r = "dated"
                  THEN [text |-> "hello", createdAt |-> "2024-01-15T10:00:00.000Z"]
             ELSE IF r = "garbled" THEN [text |-> "hello", createdAt |-> "not-a-date"]
             ELSE [text |-> "hello", createdAt |-> ""])

IndexedVariants == {"absent", "parses", "garbled"}
IndexedOf(x) ==
    IF x = "absent" THEN <<>>
    ELSE "indexedAt" :> (IF x = "parses" THEN "2024-01-15T10:05:00+00:00" ELSE "yesterday")

MetricVariants == {"absent", "likes", "all"}
MetricsOf(m) ==
    IF m = "absent" THEN <<>>
    ELSE IF m = "likes" THEN "likeCount" :> 7
    ELSE ("likeCount" :> 7) @@ ("repostCount" :> 3) @@ ("replyCount" :> 2)
            @@ ("quoteCount" :> 1)

PostData(u, c, a, r, x, m) ==
    UriOf(u) @@ CidOf(c) @@ AuthorOf(a) @@ RecordOf(r) @@ IndexedOf(x) @@ MetricsOf(m)

IsPostPayload(p) ==
    \/ p = [kind |-> "post", post_data |-> None]
    \/ \E u \in UriVariants, c \in CidVariants, a \in AuthorVariants,
          r \in RecordVariants, x \in IndexedVariants, m \in MetricVariants :
          p = [kind |-> "post", post_data |-> PostData(u, c, a, r, x, m)]

\* Posts as normalize_post builds them: two URIs, two texts each
SomePosts ==
    {NormalizePost(RawPost(Uris[n], t)).post : n \in 1..2, t \in {"first", "later"}}

PostLists == {[kind |-> "posts", posts |-> q] : q \in SeqsUpTo(SomePosts, MaxListLen)}

\* Edges differing in source, in type, in timestamp, and one differing in destination
SomeEdges ==
    {[src_uri |-> Uris[n], dst_uri |-> Uris[3], edge_type |-> ty,
      created_at |-> [kind |-> "parsed", t |-> t]] :
        n \in 1..2, ty \in {"QUOTE", "REPLY"}, t \in {600, 605}}
    \cup {[src_uri |-> Uris[1], dst_uri |-> Uris[2], edge_type |-> "QUOTE",
           created_at |-> [kind |-> "parsed", t |-> 600]]}

EdgeLists == {[kind |-> "edges", edges |-> q] : q \in SeqsUpTo(SomeEdges, MaxListLen)}

InitNormalizer ==
    /\ config = CHOOSE c \in Configs : TRUE
    /\ client = NewClient(FALSE)
    /\ cache = {}
    /\ call = IdleCall
    /\ env = NoHistory
    /\ \/ IsThreadPayload(payload)
       \/ payload \in QuotePayloads
       \/ IsPostPayload(payload)
       \/ payload \in PostLists
       \/ payload \in EdgeLists
    /\ output = NoOutput
    /\ run = NoRun

\* extract_thread_posts_and_edges(thread_response, max_depth)
ExtractThread ==
    /\ payload.kind = "thread"
    /\ ~output.done
    /\ LET r == ExtractThreadPostsAndEdges(payload.thread_response, payload.max_depth) IN
       output' = [done |-> TRUE, posts |-> r.posts, edges |-> r.edges]
    /\ UNCHANGED <<config, client, cache, call, env, payload, run>>

\* extract_quote_edges(quote_posts, target_uri)
ExtractQuotes ==
    /\ payload.kind = "quotes"
    /\ ~output.done
    /\ LET r == ExtractQuoteEdges(payload.quote_posts, payload.target_uri) IN
       output' = [done |-> TRUE, posts |-> r.posts, edges |-> r.edges]
    /\ UNCHANGED <<config, client, cache, call, env, payload, run>>

\* normalize_post(post_data)
NormalizeOne ==
    /\ payload.kind = "post"
    /\ ~output.done
    /\ LET r == NormalizePost(payload.post_data) IN
       output' = [done |-> TRUE, ok |-> r.ok, post |-> r.post, exc |-> r.exc]
    /\ UNCHANGED <<config, client, cache, call, env, payload, run>>

\* deduplicate_posts(posts), and once more on what it returned
DedupPosts ==
    /\ payload.kind = "posts"
    /\ ~output.done
    /\ LET once == DeduplicatePosts(payload.posts) IN
       output' = [done |-> TRUE, posts |-> once, twice |-> DeduplicatePosts(once)]
    /\ UNCHANGED <<config, client, cache, call, env, payload, run>>

\* deduplicate_edges(edges), and once more on what it returned
DedupEdges ==
    /\ payload.kind = "edges"
    /\ ~output.done
    /\ LET once == DeduplicateEdges(payload.edges) IN
       output' = [done |-> TRUE, edges |-> once, twice |-> DeduplicateEdges(once)]
    /\ UNCHANGED <<config, client, cache, call, env, payload, run>>

NextNormalizer ==
    \/ ExtractThread
    \/ ExtractQuotes
    \/ NormalizeOne
    \/ DedupPosts
    \/ DedupEdges

SpecNormalizer == InitNormalizer /\ [][NextNormalizer]_vars

(***************************************************************************)
(* ingest.py: query_mode and seed_mode, one step per client call absorbed. *)
(* Each crawl builds its own client; time_window_hours and lang are unset. *)
(***************************************************************************)
IntText(n) == <<"0", "1", "2", "3", "4", "5", "6">>[n + 1]

\* mutant: the cursor is not passed on
SearchParamsWithoutCursor(query, cursor) ==
    <<[k |-> "q", v |-> query], [k |-> "limit", v |-> "25"]>>

\* api.search_posts: the parameters of the request
SearchParams(query, cursor) ==
    <<[k |-> "q", v |-> query], [k |-> "limit", v |-> "25"]>>
        \o (IF cursor # "" THEN <<[k |-> "cursor", v |-> cursor]>> ELSE <<>>)

\* api.get_post_thread
ThreadParams(uri, depth) ==
    <<[k |-> "uri", v |-> uri], [k |-> "depth", v |-> IntText(depth)],
      [k |-> "parentHeight", v |-> "3"]>>

\* api.get_quotes
QuotesParams(uri, cursor) ==
    <<[k |-> "uri", v |-> uri], [k |-> "limit", v |-> "50"]>>
        \o (IF cursor # "" THEN <<[k |-> "cursor", v |-> cursor]>> ELSE <<>>)

\* the pages upstream may answer a search or quotes request with: one with a
\* continuation cursor, one without (repeating a URI and holding a malformed item)
IngestPages ==
    {[posts |-> <<RawPost(Uris[2], "first"), RawPost(Uris[3], "third")>>, cursor |-> "c1"],
     [posts |-> <<RawPost(Uris[2], "again"),
                  [uri |-> "at://m", author |-> [did |-> "did:plc:x"]]>>]}

\* the threads upstream may answer with: the seed alone, the seed with a reply
IngestThreads ==
    {[thread |-> <<Node(1, "post", 0, "root")>>],
     [thread |-> <<Node(1, "post", 0, "root"), Node(2, "post", 1, "reply")>>]}

IngestOutcomes(endpoint) ==
    {TransportError, Response(503, NoHeader, NoBody)}
        \cup OkOutcomes(IF endpoint = ThreadEndpoint THEN IngestThreads ELSE IngestPages)

IngestConfigs ==
    [max_requests_per_run : (0..MaxBudgetBound) \cup {LowBudget + MaxBudgetBound},
     max_retries : 0..MaxRetriesBound,
     initial_backoff : {initial_backoff}, max_backoff : {BackoffCap},
     search_ttl : {search_ttl}, thread_ttl : {thread_ttl},
     quotes_ttl : {quotes_ttl}, posts_ttl : {posts_ttl}]

NoIngestResult ==
    [posts |-> <<>>, edges |-> <<>>, total_requests |-> 0, cache_hits |-> 0,
     cache_misses |-> 0]

\* the locals of a crawl as it starts.  Kept besides them for the record: the
\* client calls made so far (asked), what thread extraction returned, the
\* quote posts extracted page after page, whether a fetch failed terminally,
\* and how far create_run_and_ingest has come (service)
NewRun(mode, inputs) ==
    [pc |-> "fetching", mode |-> mode, stage |-> IF mode = "seed" THEN "thread" ELSE "search",
     inputs |-> inputs, all_posts |-> <<>>, all_edges |-> <<>>, cursor |-> "",
     pages_fetched |-> 0, closed |-> 0, result |-> NoIngestResult,
     asked |-> <<>>, thread_failed |-> FALSE, thread_posts |-> <<>>,
     thread_edges |-> <<>>, quote_posts |-> <<>>, terminal |-> FALSE,
     service |-> "ingesting",
     \* the run rows inserted and the clients constructed for the request,
     \* and the validation message if it was refused
     records |-> 1, clients |-> 1, error |-> ""]

RECURSIVE NormalizeAll(_)
\* for raw_post in raw_posts: normalize, keep what normalizes
NormalizeAll(raw_posts) ==
    IF raw_posts = <<>> THEN <<>>
    ELSE LET norm == NormalizePost(Head(raw_posts)) IN
         (IF norm.ok THEN <<norm.post>> ELSE <<>>) \o NormalizeAll(Tail(raw_posts))

\* the request payloads: Optional[str] is <<>> or <<text>>
Requests ==
    [mode : {<<>>, <<"query">>, <<"seed">>, <<"graph">>},
     query : {<<>>, <<"">>, <<"cats">>},
     seedUri : {<<>>, <<"">>, <<Uris[1]>>},
     seed_uri : {<<>>, <<Uris[1]>>},
     params : [maxPages : 0..MaxPagesBound, maxQuotePages : 0..MaxPagesBound,
               maxNodes : 0..MaxNodesBound]]

\* not value, for an Optional[str]
NotText(value) == value = <<>> \/ value[1] = ""

\* a or b
Or(a, b) == IF NotText(a) THEN b ELSE a

\* the string handed on, None written as the empty string
Text(value) == IF value = <<>> THEN "" ELSE value[1]

\* mutant: only the mode is validated
ValidationFailureModeOnly(req) ==
    IF req.mode \notin {<<"query">>, <<"seed">>} THEN "Invalid mode" ELSE ""

\* the three checks of create_run_and_ingest: the message raised, or ""
ValidationFailure(req) ==
    LET seed_uri == Or(req.seedUri, req.seed_uri) IN
    IF req.mode \notin {<<"query">>, <<"seed">>} THEN "Invalid mode"
    ELSE IF req.mode = <<"query">> /\ NotText(req.query)
         THEN "Query mode requires 'query' field."
    ELSE IF req.mode = <<"seed">> /\ NotText(seed_uri)
         THEN "Seed mode requires 'seedUri' field."
    ELSE ""

\* QueryModeInputs(query=query, max_pages=params.get("maxPages", 4), ...)
QueryModeInputs(req) == [query |-> Text(req.query), max_pages |-> req.params.maxPages]

\* SeedModeInputs(seed_uri=seed_uri, max_depth=..., max_quote_pages=..., max_nodes=...)
SeedModeInputs(req) ==
    [seed_uri |-> Text(Or(req.seedUri, req.seed_uri)), max_depth |-> MaxDepthBound,
     max_quote_pages |-> req.params.maxQuotePages, max_nodes |-> req.params.maxNodes]

\* raise ValidationError(message): no run row, no crawl, no client
Rejected(message) ==
    [NewRun("", <<>>) EXCEPT !.pc = "rejected", !.service = "ValidationError",
                             !.records = 0, !.clients = 0, !.error = message]

\* mutant: no truncation
TakeAll(seq, n) == seq

Take(seq, n) == SubSeq(seq, 1, Min(n, Len(seq)))

\* mutant: the result is returned with the client left open
ReturnedLeavingOpen(r, cl, posts, edges) ==
    [r EXCEPT !.pc = "returned",
              !.result = [posts |-> posts, edges |-> edges,
                          total_requests |-> cl.total_requests,
                          cache_hits |-> cl.cache_hits,
                          cache_misses |-> cl.cache_misses]]

\* the IngestResult built from the client's counters; leaving the with block closes the client
Returned(r, cl, posts, edges) ==
    [r EXCEPT !.pc = "returned", !.closed = @ + 1,
              !.result = [posts |-> posts, edges |-> edges,
                          total_requests |-> cl.total_requests,
                          cache_hits |-> cl.cache_hits,
                          cache_misses |-> cl.cache_misses]]

\* the call raised, or returned None whose .get raises: except Exception
CallFailed(c) == c.result.exc # "" \/ c.result.value = None

\* the client gave up on the request: one of the two errors that end the retry loop
FailedTerminally(c) ==
    c.result.exc \in {"RuntimeError: max retries reached", "RuntimeError: failed after attempts"}

\* query_mode after its loop
QueryReturn(r, cl) == Returned(r, cl, DeduplicatePosts(r.all_posts), <<>>)

\* mutant: the error leaves query_mode
QueryFetchErrorRaised(r, cl, c) ==
    [r EXCEPT !.pc = "raised", !.closed = @ + 1, !.terminal = @ \/ FailedTerminally(c)]

\* except Exception: log, break; then the code after the loop
QueryFetchError(r, cl, c) ==
    QueryReturn([r EXCEPT !.terminal = @ \/ FailedTerminally(c)], cl)

\* mutant: only the edges of returned posts are returned
SeedReturnEdgesOfPosts(r, cl) ==
    LET posts == Take(r.all_posts, r.inputs.max_nodes)
        edges == DeduplicateEdges(r.all_edges)
    IN  Returned(r, cl, posts,
                 SelectSeq(edges, LAMBDA e : \E i \in DOMAIN posts : posts[i].uri = e.src_uri))

\* seed_mode's returns: posts cut to max_nodes, edges deduplicated
SeedReturn(r, cl) ==
    Returned(r, cl, Take(r.all_posts, r.inputs.max_nodes), DeduplicateEdges(r.all_edges))

\* mutant: the early return is also taken when nothing was collected
ReachedMaxNodesOrNothing(all_posts, max_nodes) ==
    Len(all_posts) >= max_nodes \/ Len(all_posts) = 0

\* mutant: the cap has to be exceeded
ReachedMaxNodesStrictly(all_posts, max_nodes) == Len(all_posts) > max_nodes

\* if len(all_posts) >= inputs.max_nodes
ReachedMaxNodes(all_posts, max_nodes) == Len(all_posts) >= max_nodes

\* the while test: fetch the next page through the client, or leave the loop
NextFetch(r, cl, ca, cfg, c) ==
    LET limit == IF r.mode = "query" THEN r.inputs.max_pages ELSE r.inputs.max_quote_pages
        g == IF r.mode = "query"
             THEN GetEnter(cl, ca, cfg, SearchEndpoint,
                           SearchParams(r.inputs.query, r.cursor), FALSE)
             ELSE GetEnter(cl, ca, cfg, QuotesEndpoint,
                           QuotesParams(r.inputs.seed_uri, r.cursor), FALSE)
    IN  IF r.pages_fetched < limit
        THEN [run |-> [r EXCEPT !.asked = Append(@, [endpoint |-> g.call.endpoint,
                                                      cursor |-> r.cursor])],
              client |-> g.client, call |-> g.call]
        ELSE [run |-> IF r.mode = "query" THEN QueryReturn(r, cl) ELSE SeedReturn(r, cl),
              client |-> cl, call |-> c]

RECURSIVE InsertCapped(_, _, _)
\* for post in quote_posts: stop at max_nodes, else all_posts[post.uri] = post
InsertCapped(all_posts, quote_posts, max_nodes) ==
    IF quote_posts = <<>> THEN all_posts
    ELSE IF Len(all_posts) >= max_nodes THEN all_posts
    ELSE InsertCapped(DictPut(all_posts, Head(quote_posts)), Tail(quote_posts), max_nodes)

RECURSIVE DictUpdate(_, _)
\* all_posts.update(thread_posts)
DictUpdate(all_posts, more) ==
    IF more = <<>> THEN all_posts
    ELSE DictUpdate(DictPut(all_posts, Head(more)), Tail(more))

InitIngest ==
    /\ config \in IngestConfigs
    /\ client \in {NewClient(up) : up \in BOOLEAN}
    /\ cache = {}
    /\ call = IdleCall
    /\ env = NoHistory
    /\ payload = NoPayload
    /\ output = NoOutput
    /\ run = NoRun

\* query_mode(inputs, config), up to its first suspension
StartQuery(inputs) ==
    /\ run.pc = "idle"
    /\ LET n == NextFetch(NewRun("query", inputs), client, cache, config, call) IN
       /\ run' = n.run
       /\ client' = n.client
       /\ call' = n.call
    /\ UNCHANGED <<config, cache, env, payload, output>>

\* query_mode: a search page (or the failure to get it) is absorbed
QueryPage ==
    /\ run.pc = "fetching" /\ run.mode = "query"
    /\ call.pc = "done"
    /\ IF CallFailed(call)
       THEN /\ run' = QueryFetchError(run, client, call)
            /\ UNCHANGED <<client, call>>
       ELSE LET response == call.result.value
                r1 == [run EXCEPT
                          !.all_posts = @ \o NormalizeAll(DictGet(response, "posts", <<>>)),
                          !.pages_fetched = @ + 1,
                          !.cursor = DictGet(response, "cursor", "")]
            IN  IF r1.cursor = "" \/ GetRemainingBudget(client, config) < LowBudget
                THEN /\ run' = QueryReturn(r1, client)
                     /\ UNCHANGED <<client, call>>
                ELSE LET n == NextFetch(r1, client, cache, config, call) IN
                     /\ run' = n.run
                     /\ client' = n.client
                     /\ call' = n.call
    /\ UNCHANGED <<config, cache, env, payload, output>>

\* seed_mode(inputs, config), up to its first suspension
StartSeed(inputs) ==
    /\ run.pc = "idle"
    /\ LET g == GetEnter(client, cache, config, ThreadEndpoint,
                         ThreadParams(inputs.seed_uri, inputs.max_depth), FALSE) IN
       /\ run' = NewRun("seed", inputs)
       /\ client' = g.client
       /\ call' = g.call
    /\ UNCHANGED <<config, cache, env, payload, output>>

\* seed_mode: the thread (or the failure to get it) is absorbed; early return
\* at max_nodes, else on to the quotes
SeedThread ==
    /\ run.pc = "fetching" /\ run.mode = "seed" /\ run.stage = "thread"
    /\ call.pc = "done"
    /\ LET got == IF CallFailed(call) THEN [posts |-> <<>>, edges |-> <<>>]
                  ELSE ExtractThreadPostsAndEdges(call.result.value, run.inputs.max_depth)
           r1 == [run EXCEPT !.all_posts = DictUpdate(@, got.posts),
                             !.all_edges = @ \o got.edges,
                             !.stage = "quotes",
                             !.thread_failed = CallFailed(call),
                             !.thread_posts = got.posts,
                             !.thread_edges = got.edges,
                             !.terminal = @ \/ FailedTerminally(call)]
       IN  IF ReachedMaxNodes(r1.all_posts, r1.inputs.max_nodes)
           THEN /\ run' = SeedReturn(r1, client)
                /\ UNCHANGED <<client, call>>
           ELSE LET n == NextFetch(r1, client, cache, config, call) IN
                /\ run' = n.run
                /\ client' = n.client
                /\ call' = n.call
    /\ UNCHANGED <<config, cache, env, payload, output>>

\* seed_mode: a quotes page (or the failure to get it) is absorbed
SeedQuotes ==
    /\ run.pc = "fetching" /\ run.mode = "seed" /\ run.stage = "quotes"
    /\ call.pc = "done"
    /\ IF CallFailed(call)
       THEN /\ run' = SeedReturn([run EXCEPT !.terminal = @ \/ FailedTerminally(call)], client)
            /\ UNCHANGED <<client, call>>
       ELSE LET response == call.result.value
                got == ExtractQuoteEdges(DictGet(response, "posts", <<>>),
                                         run.inputs.seed_uri)
                r1 == [run EXCEPT
                          !.all_posts = InsertCapped(@, got.posts, run.inputs.max_nodes),
                          !.all_edges = @ \o got.edges,
                          !.quote_posts = @ \o got.posts,
                          !.pages_fetched = @ + 1,
                          !.cursor = DictGet(response, "cursor", "")]
            IN  IF \/ r1.cursor = ""
                   \/ GetRemainingBudget(client, config) < LowBudget
                   \/ ReachedMaxNodes(r1.all_posts, r1.inputs.max_nodes)
                THEN /\ run' = SeedReturn(r1, client)
                     /\ UNCHANGED <<client, call>>
                ELSE LET n == NextFetch(r1, client, cache, config, call) IN
                     /\ run' = n.run
                     /\ client' = n.client
                     /\ call' = n.call
    /\ UNCHANGED <<config, cache, env, payload, output>>

\* create_run_and_ingest(session, payload) up to the crawl's first suspension:
\* validation, then the run row, then query_mode or seed_mode
CreateRunAndIngest(req) ==
    /\ run.pc = "idle"
    /\ LET message == ValidationFailure(req) IN
       IF message # ""
       THEN /\ run' = Rejected(message)
            /\ UNCHANGED <<config, client, cache, call, env, payload, output>>
       ELSE IF req.mode = <<"query">>
            THEN StartQuery(QueryModeInputs(req))
            ELSE StartSeed(SeedModeInputs(req))

\* create_run_and_ingest after the crawl: an exception out of the crawl
\* becomes IngestionError; a result is persisted, and a persistence failure
\* is re-raised after the rollback
CreateRunAndIngestEnds(persisted) ==
    /\ run.pc \in {"returned", "raised"}
    /\ run.service = "ingesting"
    /\ run' = [run EXCEPT !.service =
                  IF run.pc = "raised" THEN "IngestionError"
                  ELSE IF persisted THEN "run_id" ELSE "PersistenceError"]
    /\ UNCHANGED <<config, client, cache, call, env, payload, output>>

NextIngest ==
    \/ \E req \in Requests : CreateRunAndIngest(req)
    \/ \E o \in IngestOutcomes(call.endpoint) : Attempt(o, FALSE)
    \/ QueryPage
    \/ SeedThread
    \/ SeedQuotes
    \/ \E persisted \in BOOLEAN : CreateRunAndIngestEnds(persisted)

SpecIngest == InitIngest /\ [][NextIngest]_vars

(***************************************************************************)
(* runs_service._build_graph.  Optional[int] is <<>> or <<n>>; an edge     *)
(* tuple is <<src, dst, etype, created>>.                                  *)
(***************************************************************************)
\* like, repost, reply and quote counts of a stored post: scores 0, 1, 1, 2
MetricChoices == {<<0, 0, 0, 0>>, <<1, 0, 0, 0>>, <<0, 0, 0, 1>>, <<0, 1, 1, 0>>}

CreationTimes == {600, 605}

\* a row of the posts table
PostRow(n, m, t) ==
    [uri |-> Uris[n], text |-> "text", author_handle |-> "x.bsky.social",
     author_did |-> "did:plc:x", created_at |-> t,
     like_count |-> m[1], repost_count |-> m[2], reply_count |-> m[3],
     quote_count |-> m[4]]

\* edge lists of a run: among the first posts, to a post that is not stored,
\* a self-reference, the same pair under both types
StoredEdgeLists ==
    {<<>>,
     <<<<Uris[1], Uris[2], "REPLY", 600>>, <<Uris[2], Uris[1], "QUOTE", 605>>>>,
     <<<<Uris[1], Uris[2], "REPLY", 600>>, <<Uris[1], Uris[3], "REPLY", 600>>,
       <<Uris[3], Uris[1], "QUOTE", 605>>>>,
     <<<<Uris[1], "at://x", "REPLY", 600>>, <<Uris[2], Uris[3], "QUOTE", 600>>,
       <<Uris[1], Uris[2], "REPLY", 605>>>>,
     <<<<Uris[1], Uris[1], "QUOTE", 600>>, <<Uris[1], Uris[2], "REPLY", 600>>,
       <<Uris[1], Uris[2], "QUOTE", 600>>>>,
     <<<<Uris[3], Uris[2], "REPLY", 600>>, <<Uris[2], Uris[3], "REPLY", 605>>,
       <<Uris[1], Uris[3], "QUOTE", 605>>>>}

IsGraphPayload(p) ==
    \E n \in 0..MaxGraphPosts :
    \E ms \in [1..n -> MetricChoices], ts \in [1..n -> CreationTimes],
       es \in StoredEdgeLists, mx \in {<<>>} \cup {<<k>> : k \in 0..MaxGraphPosts} :
        p = [kind |-> "graph", posts |-> [i \in 1..n |-> PostRow(i, ms[i], ts[i])],
             edge_tuples |-> es, max_nodes |-> mx]

\* score = like_count + repost_count + reply_count + quote_count
Score(post) ==
    post.like_count + post.repost_count + post.reply_count + post.quote_count

\* "if max_nodes": neither None nor 0
Truthy(max_nodes) == max_nodes # <<>> /\ max_nodes[1] # 0

RECURSIVE InsertByScore(_, _)
\* list.sort(key=score, reverse=True) is stable: a post goes after the posts
\* of greater or equal score already placed
InsertByScore(sorted, post) ==
    IF sorted = <<>> THEN <<post>>
    ELSE IF Score(Head(sorted)) >= Score(post)
         THEN <<Head(sorted)>> \o InsertByScore(Tail(sorted), post)
    ELSE <<post>> \o sorted

RECURSIVE SortByScore(_, _)
\* scored_posts.sort(key=lambda x: x[0], reverse=True)
SortByScore(posts, sorted) ==
    IF posts = <<>> THEN sorted
    ELSE SortByScore(Tail(posts), InsertByScore(sorted, Head(posts)))

\* the node limit: the top max_nodes by score, or the posts as they came
TopPosts(posts, max_nodes) ==
    IF Truthy(max_nodes) /\ Len(posts) > max_nodes[1]
    THEN SubSeq(SortByScore(posts, <<>>), 1, max_nodes[1])
    ELSE posts

\* mutant: one endpoint in the node set is enough
FilterEdgesEitherEnd(edge_tuples, uri_set) ==
    LET Keep(e) == e[1] \in uri_set \/ e[2] \in uri_set IN SelectSeq(edge_tuples, Keep)

\* filtered_edges: both endpoints in uri_set
FilterEdges(edge_tuples, uri_set) ==
    LET Keep(e) == e[1] \in uri_set /\ e[2] \in uri_set IN SelectSeq(edge_tuples, Keep)

\* mutant: the edges leaving the node are counted
InDegreeCountingSources(filtered_edges, uri) ==
    Cardinality({i \in DOMAIN filtered_edges : filtered_edges[i][1] = uri})

\* in_degree.get(uri, 0) after the loop over filtered_edges
InDegree(filtered_edges, uri) ==
    Cardinality({i \in DOMAIN filtered_edges : filtered_edges[i][2] = uri})

\* out_degree.get(uri, 0) after the loop over filtered_edges
OutDegree(filtered_edges, uri) ==
    Cardinality({i \in DOMAIN filtered_edges : filtered_edges[i][1] = uri})

\* mutant: the latest timestamp is reported as the earliest
TimeMinAsMax(posts) ==
    IF posts = <<>> THEN <<>>
    ELSE <<CHOOSE t \in {posts[i].created_at : i \in DOMAIN posts} :
              \A i \in DOMAIN posts : posts[i].created_at <= t>>

\* time_min: min(timestamps) if posts else None
TimeMin(posts) ==
    IF posts = <<>> THEN <<>>
    ELSE <<CHOOSE t \in {posts[i].created_at : i \in DOMAIN posts} :
              \A i \in DOMAIN posts : t <= posts[i].created_at>>

\* time_max: max(timestamps) if posts else None
TimeMax(posts) ==
    IF posts = <<>> THEN <<>>
    ELSE <<CHOOSE t \in {posts[i].created_at : i \in DOMAIN posts} :
              \A i \in DOMAIN posts : posts[i].created_at <= t>>

GraphNode(post, filtered_edges) ==
    [uri |-> post.uri, text |-> post.text, authorHandle |-> post.author_handle,
     authorDid |-> post.author_did, createdAt |-> post.created_at,
     metrics |-> [like_count |-> post.like_count, repost_count |-> post.repost_count,
                  reply_count |-> post.reply_count, quote_count |-> post.quote_count],
     inDegree |-> InDegree(filtered_edges, post.uri),
     outDegree |-> OutDegree(filtered_edges, post.uri)]

\* _build_graph(posts, edge_tuples, max_nodes)
BuildGraphDTO(all_posts, edge_tuples, max_nodes) ==
    LET posts == TopPosts(all_posts, max_nodes)
        uri_set == {posts[i].uri : i \in DOMAIN posts}
        filtered_edges == FilterEdges(edge_tuples, uri_set)
        nodes == [i \in DOMAIN posts |-> GraphNode(posts[i], filtered_edges)]
        edges == [i \in DOMAIN filtered_edges |->
                     [src |-> filtered_edges[i][1], dst |-> filtered_edges[i][2],
                      type |-> filtered_edges[i][3]]]
    IN  [nodes |-> nodes, edges |-> edges,
         stats |-> [nodeCount |-> Len(nodes), edgeCount |-> Len(edges),
                    timeMin |-> TimeMin(posts), timeMax |-> TimeMax(posts)]]

InitGraph ==
    /\ config = CHOOSE c \in Configs : TRUE
    /\ client = NewClient(FALSE)
    /\ cache = {}
    /\ call = IdleCall
    /\ env = NoHistory
    /\ IsGraphPayload(payload)
    /\ output = NoOutput
    /\ run = NoRun

\* get_run_graph hands the run's posts and edges to _build_graph
BuildGraph ==
    /\ payload.kind = "graph"
    /\ ~output.done
    /\ LET g == BuildGraphDTO(payload.posts, payload.edge_tuples, payload.max_nodes) IN
       output' = [done |-> TRUE, nodes |-> g.nodes, edges |-> g.edges, stats |-> g.stats]
    /\ UNCHANGED <<config, client, cache, call, env, payload, run>>

NextGraph == BuildGraph

SpecGraph == InitGraph /\ [][NextGraph]_vars

(***************************************************************************)
(* runs_repository.upsert_posts and upsert_edges over the posts and edges  *)
(* tables.  A table is the sequence of its rows in insertion order; every  *)
(* call is committed by its caller.  The session is bound to PostgreSQL or *)
(* to SQLite.                                                              *)
(***************************************************************************)
MaxBatch == 2

Dialects == {"postgresql", "sqlite"}

\* a normalized post handed to the repository
StorePost(n, text) ==
    [uri |-> Uris[n], cid |-> <<"cid">>, author_did |-> "did:plc:x",
     author_handle |-> "x.bsky.social", created_at |-> [kind |-> "parsed", t |-> 600],
     text |-> text,
     metrics |-> [like_count |-> IF text = "new" THEN 1 ELSE 0, repost_count |-> 0,
                  reply_count |-> 0, quote_count |-> 0]]

StorePosts == {StorePost(n, text) : n \in 1..2, text \in {"old", "new"}}

\* a normalized edge handed to the repository
StoreEdges ==
    [src_uri : {Uris[1]}, dst_uri : {Uris[2]}, edge_type : {"REPLY", "QUOTE"},
     created_at : CreationTimes]

\* the lists of at most MaxBatch members of a set
Batches(members) == UNION {[1..n -> members] : n \in 0..MaxBatch}

\* the values dict of a post
PostValues(post) ==
    [uri |-> post.uri, cid |-> post.cid, author_did |-> post.author_did,
     author_handle |-> post.author_handle, created_at |-> post.created_at,
     text |-> post.text, like_count |-> post.metrics.like_count,
     repost_count |-> post.metrics.repost_count,
     reply_count |-> post.metrics.reply_count,
     quote_count |-> post.metrics.quote_count]

\* the values dict of an edge
EdgeValues(edge) ==
    [src_uri |-> edge.src_uri, dst_uri |-> edge.dst_uri, edge_type |-> edge.edge_type,
     created_at |-> edge.created_at]

\* key = (edge.src_uri, edge.dst_uri, edge.edge_type)
Key(edge) == <<edge.src_uri, edge.dst_uri, edge.edge_type>>

\* one row under ON CONFLICT (uri) DO UPDATE SET every other column = excluded
UpdateOrInsert(table, row) ==
    IF \E i \in DOMAIN table : table[i].uri = row.uri
    THEN [i \in DOMAIN table |-> IF table[i].uri = row.uri THEN row ELSE table[i]]
    ELSE Append(table, row)

RECURSIVE UpdateOrInsertAll(_, _)
UpdateOrInsertAll(table, values) ==
    IF values = <<>> THEN table
    ELSE UpdateOrInsertAll(UpdateOrInsert(table, Head(values)), Tail(values))

\* two rows proposed by one statement have the same uri
ProposesTwice(values) ==
    \E i, j \in DOMAIN values : i < j /\ values[i].uri = values[j].uri

\* INSERT ... VALUES ... ON CONFLICT (uri) DO UPDATE.  PostgreSQL refuses a
\* statement that would affect a row a second time and changes nothing;
\* SQLite takes the rows one after the other
OnConflictDoUpdate(dialect, table, values) ==
    IF dialect = "postgresql" /\ ProposesTwice(values)
    THEN [table |-> table, exc |-> "CardinalityViolation"]
    ELSE [table |-> UpdateOrInsertAll(table, values), exc |-> ""]

RECURSIVE OnConflictDoUpdateEdges(_, _)
\* mutant: a conflicting row replaces the stored one
OnConflictDoUpdateEdges(table, values) ==
    IF values = <<>> THEN table
    ELSE LET row == Head(values)
             next == IF \E i \in DOMAIN table : Key(table[i]) = Key(row)
                     THEN [i \in DOMAIN table |->
                              IF Key(table[i]) = Key(row) THEN row ELSE table[i]]
                     ELSE Append(table, row)
         IN  OnConflictDoUpdateEdges(next, Tail(values))

RECURSIVE OnConflictDoNothing(_, _)
\* INSERT ... VALUES ... ON CONFLICT (src_uri, dst_uri, edge_type) DO NOTHING
OnConflictDoNothing(table, values) ==
    IF values = <<>> THEN table
    ELSE LET row == Head(values) IN
         OnConflictDoNothing(IF \E i \in DOMAIN table : Key(table[i]) = Key(row)
                             THEN table ELSE Append(table, row),
                             Tail(values))

RECURSIVE UniqueEdges(_, _)
\* the first loop of the SQLite branch: the edges whose key was not seen before
UniqueEdges(edges, seen) ==
    IF edges = <<>> THEN <<>>
    ELSE IF Key(Head(edges)) \in seen THEN UniqueEdges(Tail(edges), seen)
    ELSE <<Head(edges)>> \o UniqueEdges(Tail(edges), seen \cup {Key(Head(edges))})

RECURSIVE InsertNew(_, _)
\* the second loop of the SQLite branch: select by key, add what is not there
InsertNew(table, unique_edges) ==
    IF unique_edges = <<>> THEN table
    ELSE LET edge == Head(unique_edges)
             existing == \E i \in DOMAIN table : Key(table[i]) = Key(edge)
         IN  InsertNew(IF existing THEN table ELSE Append(table, EdgeValues(edge)),
                       Tail(unique_edges))

\* upsert_posts(session, posts): the table afterwards, what is returned
\* (<<>> when the call raises) and the exception
UpsertPostsIn(dialect, table, posts) ==
    IF posts = <<>> THEN [table |-> table, returned |-> <<0>>, exc |-> ""]
    ELSE LET values == [i \in DOMAIN posts |-> PostValues(posts[i])]
             done == OnConflictDoUpdate(dialect, table, values)
         IN  IF done.exc # ""
             THEN [table |-> done.table, returned |-> <<>>, exc |-> done.exc]
             ELSE [table |-> done.table, returned |-> <<Len(posts)>>, exc |-> ""]

\* upsert_edges(session, edges)
UpsertEdgesIn(dialect, table, edges) ==
    IF edges = <<>> THEN [table |-> table, returned |-> <<0>>, exc |-> ""]
    ELSE IF dialect = "sqlite"
    THEN [table |-> InsertNew(table, UniqueEdges(edges, {})),
          returned |-> <<Len(edges)>>, exc |-> ""]
    ELSE [table |-> OnConflictDoNothing(table, [i \in DOMAIN edges |-> EdgeValues(edges[i])]),
          returned |-> <<Len(edges)>>, exc |-> ""]

InitStore ==
    /\ config \in [dialect : Dialects]
    /\ client = NewClient(FALSE)
    /\ cache = {}
    /\ call = IdleCall
    /\ env = NoHistory
    /\ payload = NoPayload
    /\ output = [done |-> FALSE, posts |-> <<>>, edges |-> <<>>, last |-> "",
                 returned |-> <<>>, exc |-> ""]
    /\ run = NoRun

UpsertPosts(posts) ==
    /\ "dialect" \in DOMAIN config
    /\ LET r == UpsertPostsIn(config.dialect, output.posts, posts) IN
       output' = [output EXCEPT !.done = TRUE, !.posts = r.table, !.last = "upsert_posts",
                                !.returned = r.returned, !.exc = r.exc]
    /\ UNCHANGED <<config, client, cache, call, env, payload, run>>

UpsertEdges(edges) ==
    /\ "dialect" \in DOMAIN config
    /\ LET r == UpsertEdgesIn(config.dialect, output.edges, edges) IN
       output' = [output EXCEPT !.done = TRUE, !.edges = r.table, !.last = "upsert_edges",
                                !.returned = r.returned, !.exc = r.exc]
    /\ UNCHANGED <<config, client, cache, call, env, payload, run>>

NextStore ==
    \/ \E posts \in Batches(StorePosts) : UpsertPosts(posts)
    \/ \E edges \in Batches(StoreEdges) : UpsertEdges(edges)

SpecStore == InitStore /\ [][NextStore]_vars

(***************************************************************************)
(* create_run_and_ingest over one database session.  The session holds the *)
(* committed tables and the tables as the open transaction sees them (tx). *)
(* The crawl is taken by its outcome: a result, or an exception.           *)
(***************************************************************************)
MaxRuns == 2

EmptyDb == [runs |-> {}, posts |-> <<>>, edges |-> <<>>, run_posts |-> {}, run_edges |-> {}]

\* repo.create_run: insert the run row
CreateRun(db, run_id, mode) ==
    [db EXCEPT !.runs = @ \cup {[run_id |-> run_id, mode |-> mode]}]

\* repo.link_run_posts: ON CONFLICT DO NOTHING on (run_id, uri)
LinkRunPosts(db, run_id, uris) ==
    [db EXCEPT !.run_posts = @ \cup {<<run_id, uris[i]>> : i \in DOMAIN uris}]

\* repo.link_run_edges: ON CONFLICT DO NOTHING on (run_id, src, dst, type)
LinkRunEdges(db, run_id, edges) ==
    [db EXCEPT !.run_edges = @ \cup {<<run_id, Key(edges[i])>> : i \in DOMAIN edges}]

\* session.execute / session.add: the statement acts on the open transaction
Execute(session, db) == [session EXCEPT !.tx = db]

\* session.commit
Commit(session) == [committed |-> session.tx, tx |-> session.tx]

\* session.rollback
Rollback(session) == [committed |-> session.committed, tx |-> session.committed]

\* mutant: closing the session commits what is pending
CloseCommitting(session) == [committed |-> session.tx, tx |-> session.tx]

\* session.close (get_session's finally): an open transaction is rolled back
Close(session) == [committed |-> session.committed, tx |-> session.committed]

\* the first n of the four statements of the persistence block
PersistSteps(db, dialect, run_id, result, n) ==
    LET d1 == IF n >= 1
              THEN [db EXCEPT !.posts = UpsertPostsIn(dialect, @, result.posts).table]
              ELSE db
        d2 == IF n >= 2
              THEN [d1 EXCEPT !.edges = UpsertEdgesIn(dialect, @, result.edges).table]
              ELSE d1
        d3 == IF n >= 3
              THEN LinkRunPosts(d2, run_id, [i \in DOMAIN result.posts |-> result.posts[i].uri])
              ELSE d2
    IN  IF n >= 4 THEN LinkRunEdges(d3, run_id, result.edges) ELSE d3

\* the persistence block: statement failAt raises (5 is the commit, 0 none);
\* except Exception: rollback, raise
Persist(session, dialect, run_id, result, failAt) ==
    LET refused == UpsertPostsIn(dialect, session.tx.posts, result.posts).exc # ""
        stop == IF refused THEN 1 ELSE failAt
    IN  IF stop = 0
        THEN [session |-> Commit(Execute(session,
                              PersistSteps(session.tx, dialect, run_id, result, 4))),
              service |-> "run_id"]
        ELSE [session |-> Rollback(Execute(session,
                              PersistSteps(session.tx, dialect, run_id, result, stop - 1))),
              service |-> "PersistenceError"]

\* what a crawl hands back
CrawlResults ==
    {[posts |-> <<>>, edges |-> <<>>],
     [posts |-> <<StorePost(1, "old")>>,
      edges |-> <<[src_uri |-> Uris[1], dst_uri |-> Uris[2], edge_type |-> "REPLY",
                   created_at |-> 600]>>],
     [posts |-> <<StorePost(1, "new"), StorePost(2, "old")>>,
      edges |-> <<[src_uri |-> Uris[1], dst_uri |-> Uris[2], edge_type |-> "REPLY",
                   created_at |-> 605],
                  [src_uri |-> Uris[1], dst_uri |-> Uris[2], edge_type |-> "QUOTE",
                   created_at |-> 605]>>]}

\* the requests sent: two that pass validation, two that do not
ServiceRequests ==
    {req \in Requests :
        /\ req.params = [maxPages |-> 0, maxQuotePages |-> 0, maxNodes |-> 0]
        /\ req.seed_uri = <<>>
        /\ \/ req.mode = <<"query">> /\ req.seedUri = <<>>
           \/ req.mode = <<"seed">> /\ req.query = <<>> /\ req.seedUri # <<"">>
           \/ req.mode = <<"graph">> /\ req.query = <<>> /\ req.seedUri = <<>>}

NoService == [pc |-> "idle", runs |-> 0, run_id |-> 0, mode |-> "", service |-> "",
              result |-> NoIngestResult]

InitService ==
    /\ config \in [dialect : Dialects]
    /\ client = NewClient(FALSE)
    /\ cache = {}
    /\ call = IdleCall
    /\ env = NoHistory
    /\ payload = NoPayload
    /\ output = [done |-> FALSE, committed |-> EmptyDb, tx |-> EmptyDb]
    /\ run = NoService

\* create_run_and_ingest up to the crawl: validation, then the run row
ServiceBegins(req) ==
    /\ "dialect" \in DOMAIN config /\ "runs" \in DOMAIN run
    /\ run.pc = "idle" /\ run.runs < MaxRuns
    /\ IF ValidationFailure(req) # ""
       THEN /\ run' = [run EXCEPT !.runs = @ + 1, !.run_id = 0, !.mode = "",
                                  !.service = "ValidationError",
                                  !.result = NoIngestResult]
            /\ output' = [done |-> TRUE] @@ Close([committed |-> output.committed,
                                                   tx |-> output.tx])
       ELSE /\ run' = [run EXCEPT !.pc = "ingesting", !.runs = @ + 1,
                                  !.run_id = run.runs + 1, !.mode = req.mode[1],
                                  !.service = "ingesting", !.result = NoIngestResult]
            /\ output' = [done |-> TRUE] @@
                            Execute([committed |-> output.committed, tx |-> output.tx],
                                    CreateRun(output.tx, run.runs + 1, req.mode[1]))
    /\ UNCHANGED <<config, client, cache, call, env, payload>>

\* create_run_and_ingest from the end of the crawl: IngestionError, or the
\* persistence block; then the session is closed
ServiceEnds(raised, result, failAt) ==
    /\ "dialect" \in DOMAIN config /\ "runs" \in DOMAIN run
    /\ run.pc = "ingesting"
    /\ LET session == [committed |-> output.committed, tx |-> output.tx] IN
       IF raised
       THEN /\ run' = [run EXCEPT !.pc = "idle", !.service = "IngestionError"]
            /\ output' = [done |-> TRUE] @@ Close(session)
       ELSE LET p == Persist(session, config.dialect, run.run_id, result, failAt) IN
            /\ run' = [run EXCEPT !.pc = "idle", !.service = p.service,
                                  !.result = [NoIngestResult EXCEPT
                                                 !.posts = result.posts,
                                                 !.edges = result.edges]]
            /\ output' = [done |-> TRUE] @@ Close(p.session)
    /\ UNCHANGED <<config, client, cache, call, env, payload>>

NextService ==
    \/ \E req \in ServiceRequests : ServiceBegins(req)
    \/ \E raised \in BOOLEAN, result \in CrawlResults, failAt \in 0..5 :
           ServiceEnds(raised, result, failAt)

SpecService == InitService /\ [][NextService]_vars

(***************************************************************************)
(* Properties of the client                                                *)
(***************************************************************************)
\* the step is the entry of a get call
IsGetStep == env'.calls = env.calls + 1

\* the step is one network round trip of the call in progress
IsAttemptStep == call.pc = "loop" /\ call'.net = call.net + 1

ParamSet(params) == {params[i] : i \in DOMAIN params}

\* C1: with the budget counter at (or past) max_requests_per_run every get
\* call fails with the budget error before the cache is read or the network
\* contacted: counters and cache are unchanged, whatever the cache holds.
C1_BudgetCheckedFirst ==
    [][(IsGetStep /\ client.request_count >= config.max_requests_per_run)
          => /\ call'.pc = "done"
             /\ call'.result = [exc |-> "RuntimeError: budget exhausted", value |-> None]
             /\ call'.net = 0 /\ ~call'.hit
             /\ client' = client
             /\ cache' = cache]_vars

\* a call refused for the budget while a valid entry for its key is cached
C1_Witness ==
    /\ call.pc = "done"
    /\ call.result.exc = "RuntimeError: budget exhausted"
    /\ client.redis /\ ~call.read_fail
    /\ client.request_count >= 1
    /\ LET stored == RedisGet(cache, MakeCacheKey(call.endpoint, call.params)) IN
       stored # None /\ stored.text = "json" /\ stored.data # None

\* C2: the budget counter never exceeds max_requests_per_run.
C2_BudgetNeverExceeded == client.request_count <= config.max_requests_per_run

\* the second of two get calls with the same endpoint and parameter set, the
\* first having fetched and cached its payload, the entry not yet expired and
\* the cache answering
IsSecondIdenticalGet ==
    /\ IsGetStep
    /\ Remember(call).fetched
    /\ call'.endpoint = call.endpoint
    /\ ParamSet(call'.params) = ParamSet(call.params)
    /\ ~env.touched
    /\ client.redis /\ ~call'.read_fail

ServedFromCache ==
    /\ call'.pc = "done"
    /\ call'.hit /\ call'.net = 0
    /\ call'.result = [exc |-> "", value |-> call.result.value]
    /\ client' = [client EXCEPT !.cache_hits = @ + 1]
    /\ cache' = cache

\* C4 as stated: two identical calls within the TTL cost exactly one network
\* call in total and the second is served from the cache.
C4_ExactlyOneNetworkCall ==
    [][IsSecondIdenticalGet => (call.net + call'.net = 1 /\ ServedFromCache)]_vars

\* C4 amended: when the first call fetched a JSON object and cached it and the
\* budget counter is still below its cap, the second call issues no network
\* request, returns the cached payload, adds one to cache_hits and leaves the
\* other counters alone; all network calls (1..max_retries) are the first's.
C4_SecondCallServedFromCache ==
    [][(IsSecondIdenticalGet /\ client.request_count < config.max_requests_per_run)
          => /\ ServedFromCache
             /\ call.net >= 1 /\ call.net <= config.max_retries]_vars

\* the second call hit the cache although its parameters came in another order
C4_Witness ==
    /\ call.pc = "done" /\ call.hit
    /\ env.prev.fetched
    /\ env.prev.endpoint = call.endpoint
    /\ env.prev.params # call.params
    /\ ParamSet(env.prev.params) = ParamSet(call.params)
    /\ call.result.value = env.prev.value
    /\ ~env.touched

TerminalErrors == {"RuntimeError: max retries reached", "RuntimeError: failed after attempts"}

MissedCache(c) ==
    c.pc = "done" /\ ~c.hit /\ c.result.exc # "RuntimeError: budget exhausted"

C6_RetryAfterHonoured ==
    call.last.status = 429 =>
        /\ \A r \in {0, 2} :
              (/\ call.last.retry_after.present
               /\ call.last.retry_after.text = (IF r = 0 THEN "0" ELSE "2"))
              => call.sleep = [slept |-> TRUE, base |-> r, jitter |-> FALSE]
        /\ ~call.last.retry_after.present
              => call.sleep = [slept |-> TRUE, base |-> call.backoff_at, jitter |-> TRUE]

\* a 429 with Retry-After: 2 answered while the backoff value was 1
C6_Witness ==
    /\ call.last.status = 429
    /\ call.last.retry_after = [present |-> TRUE, text |-> "2"]
    /\ call.backoff_at = 1
    /\ call.sleep.base = 2

\* C7: cache failures never fail get.  A failed read (or a cache that was
\* unavailable at construction) is a miss: no hit is counted, the miss counter
\* goes up and the network is asked.  A failed write leaves the cache as it
\* was and the fetched payload is returned all the same.
C7_CacheFailuresSwallowed ==
    /\ [](call.result.exc \in
              {"", "ValueError", "RuntimeError: budget exhausted"} \cup TerminalErrors)
    /\ [][(/\ IsGetStep
           /\ client.request_count < config.max_requests_per_run
           /\ (call'.read_fail \/ ~client.redis))
            => /\ ~call'.hit
               /\ client' = [client EXCEPT !.cache_misses = @ + 1]
               /\ IF config.max_retries > 0 THEN call'.pc = "loop"
                  ELSE call'.result.exc = "RuntimeError: failed after attempts"]_vars
    /\ [][(/\ IsAttemptStep
           /\ call'.last.status = 200 /\ call'.last.body.valid
           /\ (call'.write_fail \/ ~client.redis))
            => /\ call'.pc = "done"
               /\ call'.result = [exc |-> "", value |-> call'.last.body.data]
               /\ cache' = cache]_vars

\* a call whose cache read and cache write both failed returned the payload
\* fetched from the network, although an entry for its key was cached
C7_Witness ==
    /\ call.pc = "done"
    /\ call.read_fail /\ call.write_fail
    /\ call.result = [exc |-> "", value |-> [tag |-> "obj", id |-> "A"]]
    /\ RedisGet(cache, call.cache_key) = JsonDumps([tag |-> "obj", id |-> "B"])

(***************************************************************************)
(* Properties of thread and quote extraction                               *)
(***************************************************************************)
\* a raw post that normalizes: it has a URI and an author DID and handle
WellFormed(raw) ==
    /\ "uri" \in DOMAIN raw /\ raw.uri # ""
    /\ "author" \in DOMAIN raw
    /\ "did" \in DOMAIN raw.author /\ raw.author.did # ""
    /\ "handle" \in DOMAIN raw.author /\ raw.author.handle # ""

ThreadDone == payload.kind = "thread" /\ output.done
HasTree == "thread" \in DOMAIN payload.thread_response
TheTree == payload.thread_response.thread

\* a present-post node whose post normalizes
NodeOk(t, n) == t[n].type = ViewPost /\ "post" \in DOMAIN t[n] /\ WellFormed(t[n].post)

\* in the tree, node a is a reply to node b
RepliesTo(t, a, b) ==
    \/ t[a].attach = b /\ t[a].rel = "reply"      \* a is in b's replies list
    \/ t[b].attach = a /\ t[b].rel = "parent"     \* b is a's parent node

\* C8: every REPLY edge of thread extraction points from a post to the post
\* it replies to (from child to parent), on the way down into replies as on
\* the way up the parent chain.
C8_ReplyEdgesChildToParent ==
    (ThreadDone /\ HasTree) =>
        \A i \in DOMAIN output.edges :
            LET e == output.edges[i] IN
            e.edge_type = "REPLY" =>
                \E a, b \in DOMAIN TheTree :
                    /\ NodeOk(TheTree, a) /\ NodeOk(TheTree, b)
                    /\ TheTree[a].post.uri = e.src_uri
                    /\ TheTree[b].post.uri = e.dst_uri
                    /\ RepliesTo(TheTree, a, b)

RECURSIVE StepsFromRoot(_, _)
StepsFromRoot(t, n) == IF n = 1 THEN 0 ELSE 1 + StepsFromRoot(t, t[n].attach)

RECURSIVE PathNormalizes(_, _)
\* every node between the root and n (n excluded) is a present post that normalizes
PathNormalizes(t, n) ==
    n = 1 \/ (NodeOk(t, t[n].attach) /\ PathNormalizes(t, t[n].attach))

Reached(t, max_depth) ==
    {n \in DOMAIN t : NodeOk(t, n) /\ PathNormalizes(t, n) /\ StepsFromRoot(t, n) < max_depth}

\* C9: thread extraction ends on every tree; it records a post exactly for the
\* present-post nodes within fewer than max_depth steps of the root along
\* normalizing present-post nodes, one edge for each of them but the root, and
\* nothing for or beyond any other node; what lies before a cut-off is kept.
C9_ThreadExtractionExact ==
    ThreadDone =>
        IF ~HasTree THEN output.posts = <<>> /\ output.edges = <<>>
        ELSE LET reached == Reached(TheTree, payload.max_depth) IN
             /\ {output.posts[i].uri : i \in DOMAIN output.posts}
                    = {TheTree[n].post.uri : n \in reached}
             /\ \A i, j \in DOMAIN output.posts :
                    output.posts[i].uri = output.posts[j].uri => i = j
             /\ {EdgeKey(output.edges[i]) : i \in DOMAIN output.edges}
                    = {<<TheTree[n].post.uri, TheTree[TheTree[n].attach].post.uri, "REPLY">> :
                          n \in reached \ {1}}
             /\ \A i, j \in DOMAIN output.edges :
                    EdgeKey(output.edges[i]) = EdgeKey(output.edges[j]) => i = j

\* two posts and their edge were kept although a normalizing post two steps
\* from the root was cut off by the depth bound
C9_Witness ==
    /\ ThreadDone /\ HasTree
    /\ Len(output.posts) = 2 /\ Len(output.edges) = 1
    /\ \E n \in DOMAIN TheTree :
          /\ NodeOk(TheTree, n) /\ PathNormalizes(TheTree, n)
          /\ StepsFromRoot(TheTree, n) = 2 /\ payload.max_depth = 2

QuotesDone == payload.kind = "quotes" /\ output.done

\* C10: extract_quote_edges returns, in input order, the posts of the payloads
\* that normalize and, index by index, the QUOTE edge from that post to
\* target_uri; other payloads are skipped; an empty input gives empty lists.
C10_QuoteEdgesPerPost ==
    QuotesDone =>
        LET good == SelectSeq(payload.quote_posts, WellFormed) IN
        /\ Len(output.posts) = Len(good)
        /\ Len(output.edges) = Len(good)
        /\ \A i \in DOMAIN good :
              /\ output.posts[i].uri = good[i].uri
              /\ output.posts[i].text = good[i].record.text
              /\ output.edges[i] =
                    [src_uri |-> good[i].uri, dst_uri |-> payload.target_uri,
                     edge_type |-> "QUOTE", created_at |-> output.posts[i].created_at]

\* a page of one malformed payload followed by two good ones
C10_Witness ==
    /\ QuotesDone
    /\ Len(payload.quote_posts) = 3
    /\ ~WellFormed(payload.quote_posts[1])
    /\ Len(output.posts) = 2 /\ Len(output.edges) = 2
    /\ output.posts[1].uri # output.posts[2].uri

(***************************************************************************)
(* Properties of the crawls                                                *)
(***************************************************************************)
\* C3: the total_requests of the IngestResult of a query-mode or seed-mode
\* run never exceeds max_requests_per_run.
C3_RunWithinBudget ==
    run.pc = "returned" => run.result.total_requests <= config.max_requests_per_run

(***************************************************************************)
(* normalize_post on one payload                                           *)
(***************************************************************************)
PostDone == payload.kind = "post" /\ output.done
Given == payload.post_data

UriMissing == Given = None \/ "uri" \notin DOMAIN Given \/ Given.uri = ""

AuthorMissing ==
    \/ "author" \notin DOMAIN Given
    \/ Given.author = None
    \/ "did" \notin DOMAIN Given.author \/ Given.author.did = ""
    \/ "handle" \notin DOMAIN Given.author \/ Given.author.handle = ""

RecordNotObject == "record" \in DOMAIN Given /\ Given.record = None

TextGiven ==
    IF "record" \in DOMAIN Given /\ "text" \in DOMAIN Given.record
    THEN Given.record.text ELSE ""

CountGiven(k) == IF k \in DOMAIN Given THEN Given[k] ELSE 0

\* the Post carries the payload's identity, its text or "", its counters or 0
PostAsGiven ==
    /\ output.post.uri = Given.uri
    /\ output.post.author_did = Given.author.did
    /\ output.post.author_handle = Given.author.handle
    /\ output.post.text = TextGiven
    /\ output.post.metrics =
          [like_count |-> CountGiven("likeCount"), repost_count |-> CountGiven("repostCount"),
           reply_count |-> CountGiven("replyCount"), quote_count |-> CountGiven("quoteCount")]

CreatedGiven ==
    IF "record" \in DOMAIN Given /\ "createdAt" \in DOMAIN Given.record
    THEN Given.record.createdAt ELSE ""

IndexedGiven == IF "indexedAt" \in DOMAIN Given THEN Given.indexedAt ELSE ""

\* C12: created_at is the parsed record.createdAt if it parses, else the
\* parsed indexedAt if that parses, else the current time.
C12_TimestampFallback ==
    PostDone /\ output.ok =>
        output.post.created_at =
            IF ParseTimestamp(CreatedGiven).ok
            THEN [kind |-> "parsed", t |-> ParseTimestamp(CreatedGiven).t]
            ELSE IF ParseTimestamp(IndexedGiven).ok
            THEN [kind |-> "parsed", t |-> ParseTimestamp(IndexedGiven).t]
            ELSE [kind |-> "now", t |-> 0]


(***************************************************************************)
(* The deduplicators                                                       *)
(***************************************************************************)
PostsDeduped == payload.kind = "posts" /\ output.done

\* where URI u first occurs in seq
FirstAt(seq, u) ==
    CHOOSE i \in DOMAIN seq : seq[i].uri = u /\ \A j \in 1..(i - 1) : seq[j].uri # u

\* C13: deduplicate_posts returns exactly one entry per distinct URI, the
\* first occurrence of it, in original relative order; a second application
\* changes nothing.
C13_DedupPostsFirstSeen ==
    PostsDeduped =>
        LET given == payload.posts
            kept == output.posts
            uris == {given[i].uri : i \in DOMAIN given}
        IN  /\ Len(kept) = Cardinality(uris)
            /\ \A u \in uris : Cardinality({i \in DOMAIN kept : kept[i].uri = u}) = 1
            /\ \A i \in DOMAIN kept : kept[i] = given[FirstAt(given, kept[i].uri)]
            /\ \A i, j \in DOMAIN kept :
                  i < j => FirstAt(given, kept[i].uri) < FirstAt(given, kept[j].uri)
            /\ output.twice = kept

\* a URI repeated with another text around a second URI: two posts are kept
C13_Witness ==
    /\ PostsDeduped
    /\ Len(payload.posts) = 3 /\ Len(output.posts) = 2
    /\ payload.posts[1].uri = payload.posts[3].uri
    /\ payload.posts[1] # payload.posts[3]
    /\ output.posts = <<payload.posts[1], payload.posts[2]>>

EdgesDeduped == payload.kind = "edges" /\ output.done

Triple(e) == <<e.src_uri, e.dst_uri, e.edge_type>>

FirstEdgeAt(seq, t) ==
    CHOOSE i \in DOMAIN seq : Triple(seq[i]) = t /\ \A j \in 1..(i - 1) : Triple(seq[j]) # t

\* C14: deduplicate_edges keeps the first occurrence of each (src, dst, type)
\* triple in original order; edges differing only in timestamp collapse, edges
\* differing in src, dst or type are all kept.
C14_DedupEdgesFirstSeen ==
    EdgesDeduped =>
        LET given == payload.edges
            kept == output.edges
            triples == {Triple(given[i]) : i \in DOMAIN given}
        IN  /\ Len(kept) = Cardinality(triples)
            /\ \A t \in triples : Cardinality({i \in DOMAIN kept : Triple(kept[i]) = t}) = 1
            /\ \A i \in DOMAIN kept : kept[i] = given[FirstEdgeAt(given, Triple(kept[i]))]
            /\ \A i, j \in DOMAIN kept :
                  i < j => FirstEdgeAt(given, Triple(kept[i]))
                              < FirstEdgeAt(given, Triple(kept[j]))

\* two edges differing only in timestamp and a third differing only in type
C14_Witness ==
    /\ EdgesDeduped
    /\ Len(payload.edges) = 3
    /\ Triple(payload.edges[1]) = Triple(payload.edges[2])
    /\ payload.edges[1].created_at # payload.edges[2].created_at
    /\ payload.edges[3].src_uri = payload.edges[1].src_uri
    /\ payload.edges[3].dst_uri = payload.edges[1].dst_uri
    /\ payload.edges[3].edge_type # payload.edges[1].edge_type
    /\ output.edges = <<payload.edges[1], payload.edges[3]>>

(***************************************************************************)
(* The crawls                                                              *)
(***************************************************************************)
QueryRunning == run.pc # "idle" /\ run.mode = "query"
SeedRunning == run.pc # "idle" /\ run.mode = "seed"

\* the crawl hands a new request to the client in this step
AsksAgain == run.pc = "fetching" /\ Len(run'.asked) = Len(run.asked) + 1

\* the request now pending at the client carries this cursor
CarriesCursor(c, cursor) ==
    IF cursor = "" THEN \A i \in DOMAIN c.params : c.params[i].k # "cursor"
    ELSE [k |-> "cursor", v |-> cursor] \in ParamSet(c.params)

\* C15: query mode asks for pages one after the other along the cursor chain:
\* the request for page N+1 carries the cursor page N returned and is made
\* only once page N is processed; at most max_pages pages are asked for; no
\* page is asked for after a response without cursor or with less than 10
\* requests of budget remaining.
C15_SequentialCursorChain ==
    /\ [](QueryRunning =>
            /\ Len(run.asked) <= run.inputs.max_pages
            /\ run.pages_fetched <= Len(run.asked)
            /\ Len(run.asked) <= run.pages_fetched + 1
            /\ run.pc = "fetching" => Len(run.asked) = run.pages_fetched + 1)
    /\ [][/\ (run.pc = "idle" /\ run'.pc # "idle" /\ run'.mode = "query"
                 /\ run'.asked # <<>>) =>
                /\ call'.endpoint = SearchEndpoint
                /\ CarriesCursor(call', "")
          /\ (QueryRunning /\ AsksAgain) =>
                /\ call.pc = "done" /\ call.result.exc = ""
                /\ "cursor" \in DOMAIN call.result.value
                /\ call.result.value.cursor # ""
                /\ call'.endpoint = SearchEndpoint
                /\ CarriesCursor(call', call.result.value.cursor)
                /\ run'.pages_fetched = Len(run.asked)
                /\ run'.pages_fetched < run.inputs.max_pages
                /\ config.max_requests_per_run - client.request_count >= 10]_vars

\* two pages were asked for, the second with the cursor of the first
C15_Witness ==
    /\ QueryRunning /\ run.pc = "returned"
    /\ run.pages_fetched = 2
    /\ Len(run.asked) = 2 /\ run.asked[2].cursor = "c1"
    /\ CarriesCursor(call, "c1")

\* kept holds one post per URI of given, its first occurrence, in order
IsFirstSeenPosts(given, kept) ==
    /\ Len(kept) = Cardinality({given[i].uri : i \in DOMAIN given})
    /\ \A i \in DOMAIN kept :
          /\ \E j \in DOMAIN given : given[j].uri = kept[i].uri
          /\ kept[i] = given[FirstAt(given, kept[i].uri)]
    /\ \A i, j \in DOMAIN kept :
          i < j => FirstAt(given, kept[i].uri) < FirstAt(given, kept[j].uri)

\* C16: in query mode an error raised by a page fetch ends pagination without
\* leaving query_mode: the run returns the first-seen URI-deduplicated posts
\* of the pages fetched before, and no edges.
C16_QueryErrorKeepsPartial ==
    [][(QueryRunning /\ run.pc = "fetching" /\ call.pc = "done"
            /\ call.result.exc # "" /\ run' # run) =>
          /\ run'.pc = "returned"
          /\ IsFirstSeenPosts(run.all_posts, run'.result.posts)
          /\ run'.result.edges = <<>>
          /\ run'.pages_fetched = run.pages_fetched]_vars

\* the second page failed and the posts of the first were returned
C16_Witness ==
    /\ QueryRunning /\ run.pc = "returned"
    /\ run.pages_fetched = 1 /\ Len(run.asked) = 2
    /\ call.result.exc # ""
    /\ Len(run.result.posts) = 2

\* C17: a fetch that failed terminally during a crawl makes
\* create_run_and_ingest raise IngestionError.
C17_TerminalFailureSurfaces ==
    (run.pc # "idle" /\ run.service # "ingesting" /\ run.terminal) =>
        run.service = "IngestionError"

AskedQuotes == \E i \in DOMAIN run.asked : run.asked[i].endpoint = QuotesEndpoint

IsFirstSeenEdges(given, kept) ==
    /\ Len(kept) = Cardinality({Triple(given[i]) : i \in DOMAIN given})
    /\ \A i \in DOMAIN kept :
          /\ \E j \in DOMAIN given : Triple(given[j]) = Triple(kept[i])
          /\ kept[i] = given[FirstEdgeAt(given, Triple(kept[i]))]
    /\ \A i, j \in DOMAIN kept :
          i < j => FirstEdgeAt(given, Triple(kept[i])) < FirstEdgeAt(given, Triple(kept[j]))

\* C19: when thread extraction yields at least max_nodes posts, no get-quotes
\* request is made and the result is the first max_nodes thread posts in
\* traversal order with the deduplicated thread edges.
C19_EarlyExitSkipsQuotes ==
    (SeedRunning /\ run.stage = "quotes"
        /\ Len(run.thread_posts) >= run.inputs.max_nodes) =>
        /\ run.pc = "returned"
        /\ run.asked = <<>>
        /\ run.pages_fetched = 0
        /\ Len(run.result.posts) = run.inputs.max_nodes
        /\ \A i \in DOMAIN run.result.posts : run.result.posts[i] = run.thread_posts[i]
        /\ IsFirstSeenEdges(run.thread_edges, run.result.edges)

\* a thread of two posts cut to max_nodes = 1, without any quotes request
C19_Witness ==
    /\ SeedRunning /\ run.pc = "returned"
    /\ run.inputs.max_nodes = 1 /\ run.inputs.max_quote_pages > 0
    /\ Len(run.thread_posts) = 2
    /\ run.result.posts = <<run.thread_posts[1]>>
    /\ Len(run.result.edges) = 1
    /\ run.asked = <<>>

\* C20: a seed-mode result has at most max_nodes posts, no URI twice, thread
\* posts first in traversal order and then quote posts in fetch order; no
\* (src, dst, type) triple occurs twice among its edges.
C20_SeedResultShape ==
    (SeedRunning /\ run.pc = "returned") =>
        LET kept == run.result.posts
            thread_uris == {run.thread_posts[i].uri : i \in DOMAIN run.thread_posts}
            seen == run.thread_posts \o run.quote_posts
        IN  /\ Len(kept) <= run.inputs.max_nodes
            /\ \A i, j \in DOMAIN kept : i # j => kept[i].uri # kept[j].uri
            /\ \A i \in DOMAIN kept : \E j \in DOMAIN seen : seen[j].uri = kept[i].uri
            /\ \A i, j \in DOMAIN kept :
                  i < j => /\ FirstAt(seen, kept[i].uri) < FirstAt(seen, kept[j].uri)
                           /\ kept[j].uri \in thread_uris => kept[i].uri \in thread_uris
            /\ \A i, j \in DOMAIN run.result.edges :
                  i # j => Triple(run.result.edges[i]) # Triple(run.result.edges[j])

\* the seed's own post followed by two quote posts, filling max_nodes = 3
C20_Witness ==
    /\ SeedRunning /\ run.pc = "returned"
    /\ run.inputs.max_nodes = 3
    /\ Len(run.thread_posts) = 1 /\ Len(run.result.posts) = 3
    /\ run.result.posts[1] = run.thread_posts[1]
    /\ run.result.posts[2] = run.quote_posts[1]
    /\ Len(run.result.edges) = 2

\* what the run saw, in the order it saw it
SeenInRun ==
    IF run.mode = "query" THEN run.all_posts ELSE run.thread_posts \o run.quote_posts

\* C21: within one crawl run, of two payloads with the same URI the later is
\* discarded: the Post returned for a URI has the attributes of the payload
\* seen first.
C21_FirstSeenWins ==
    (run.pc = "returned") =>
        \A i \in DOMAIN run.result.posts :
            run.result.posts[i] = SeenInRun[FirstAt(SeenInRun, run.result.posts[i].uri)]

(***************************************************************************)
(* The graph assembler                                                     *)
(***************************************************************************)
GraphDone == payload.kind = "graph" /\ output.done

\* where the post of node i stood in the input
InputIndex(i) == CHOOSE k \in DOMAIN payload.posts : payload.posts[k].uri = output.nodes[i].uri

Engagement(k) ==
    payload.posts[k].like_count + payload.posts[k].repost_count
        + payload.posts[k].reply_count + payload.posts[k].quote_count

\* post a comes before post b in descending score order, ties in input order
Outranks(a, b) == Engagement(a) > Engagement(b) \/ (Engagement(a) = Engagement(b) /\ a < b)

\* C22: when max_nodes is set and the post count exceeds it, the nodes are
\* exactly the max_nodes posts of highest engagement score, in descending
\* score order with equal scores in input order; otherwise the node order is
\* the input order.
C22_TopByScoreStable ==
    GraphDone =>
        LET nodes == output.nodes
            posts == payload.posts
        IN  /\ \A i \in DOMAIN nodes : \E k \in DOMAIN posts : posts[k].uri = nodes[i].uri
            /\ IF payload.max_nodes # <<>> /\ Len(posts) > payload.max_nodes[1]
               THEN /\ Len(nodes) = payload.max_nodes[1]
                    /\ \A i, j \in DOMAIN nodes :
                          i < j => Outranks(InputIndex(i), InputIndex(j))
                    /\ \A k \in DOMAIN posts :
                          (\A i \in DOMAIN nodes : InputIndex(i) # k) =>
                              \A i \in DOMAIN nodes : Outranks(InputIndex(i), k)
               ELSE /\ Len(nodes) = Len(posts)
                    /\ \A i \in DOMAIN nodes : nodes[i].uri = posts[i].uri

\* C23: for every max_nodes >= 0 given to the assembler, the graph has at
\* most max_nodes nodes.
C23_AtMostMaxNodes ==
    (GraphDone /\ payload.max_nodes # <<>>) => Len(output.nodes) <= payload.max_nodes[1]

NodeUris == {output.nodes[i].uri : i \in DOMAIN output.nodes}

\* the input edges with both endpoints among the returned nodes, in input order
EdgesAmongNodes ==
    LET Inside(e) == e[1] \in NodeUris /\ e[2] \in NodeUris
        inside == SelectSeq(payload.edge_tuples, Inside)
    IN  [i \in DOMAIN inside |->
            [src |-> inside[i][1], dst |-> inside[i][2], type |-> inside[i][3]]]

\* C24: the graph's edges are exactly the input edges whose source and
\* destination are both in the returned node set, in input order.
C24_EdgesWithinNodeSet == GraphDone => output.edges = EdgesAmongNodes

\* an edge was kept, and an edge between a kept post and a trimmed one dropped
C24_Witness ==
    /\ GraphDone
    /\ Len(output.nodes) < Len(payload.posts)
    /\ Len(output.edges) > 0
    /\ \E i \in DOMAIN payload.edge_tuples :
          /\ payload.edge_tuples[i][1] \in NodeUris
          /\ payload.edge_tuples[i][2] \notin NodeUris
          /\ \E k \in DOMAIN payload.posts :
                payload.posts[k].uri = payload.edge_tuples[i][2]

RECURSIVE SumOf(_)
SumOf(numbers) == IF numbers = <<>> THEN 0 ELSE Head(numbers) + SumOf(Tail(numbers))

\* C25: inDegree(n) is the number of returned edges with destination n and
\* outDegree(n) the number with source n; the in-degrees and the out-degrees
\* each add up to stats.edgeCount.
C25_DegreesFromReturnedEdges ==
    GraphDone =>
        /\ \A i \in DOMAIN output.nodes :
              /\ output.nodes[i].inDegree =
                    Cardinality({j \in DOMAIN output.edges :
                                    output.edges[j].dst = output.nodes[i].uri})
              /\ output.nodes[i].outDegree =
                    Cardinality({j \in DOMAIN output.edges :
                                    output.edges[j].src = output.nodes[i].uri})
        /\ SumOf([i \in DOMAIN output.nodes |-> output.nodes[i].inDegree])
              = output.stats.edgeCount
        /\ SumOf([i \in DOMAIN output.nodes |-> output.nodes[i].outDegree])
              = output.stats.edgeCount

\* a node keeps one incoming edge and loses another to the filter
C25_Witness ==
    /\ GraphDone
    /\ \E i \in DOMAIN output.nodes :
          /\ output.nodes[i].inDegree = 1
          /\ Cardinality({j \in DOMAIN payload.edge_tuples :
                             payload.edge_tuples[j][2] = output.nodes[i].uri}) = 2

\* C26: nodeCount and edgeCount are the numbers of returned nodes and edges;
\* timeMin and timeMax are the least and greatest creation timestamp of the
\* returned nodes, and absent when there is none.
C26_StatsOverRetained ==
    GraphDone =>
        LET times == {output.nodes[i].createdAt : i \in DOMAIN output.nodes} IN
        /\ output.stats.nodeCount = Len(output.nodes)
        /\ output.stats.edgeCount = Len(output.edges)
        /\ IF times = {}
           THEN output.stats.timeMin = <<>> /\ output.stats.timeMax = <<>>
           ELSE /\ Len(output.stats.timeMin) = 1 /\ Len(output.stats.timeMax) = 1
                /\ output.stats.timeMin[1] \in times
                /\ output.stats.timeMax[1] \in times
                /\ \A t \in times :
                      output.stats.timeMin[1] <= t /\ t <= output.stats.timeMax[1]

\* the only early post was trimmed away: timeMin is later than the earliest input
C26_Witness ==
    /\ GraphDone
    /\ Len(output.nodes) = 2 /\ Len(payload.posts) = 3
    /\ output.stats.timeMin = <<605>> /\ output.stats.timeMax = <<605>>
    /\ \E k \in DOMAIN payload.posts : payload.posts[k].created_at = 600

\* the requests the service has to refuse: an unsupported mode, query mode
\* without query text, seed mode without a seed URI under either key
Unsupported(req) ==
    \/ req.mode \notin {<<"query">>, <<"seed">>}
    \/ req.mode = <<"query">> /\ req.query \in {<<>>, <<"">>}
    \/ req.mode = <<"seed">> /\ req.seedUri \in {<<>>, <<"">>} /\ req.seed_uri = <<>>

\* every request the service has to refuse fails one of the three checks
AllRefused == \A req \in Requests : Unsupported(req) => ValidationFailure(req) # ""

\* the refused requests tried at every step (a refusal never reads params)
RefusedRequests ==
    {req \in [mode : {<<>>, <<"query">>, <<"seed">>, <<"graph">>},
              query : {<<>>, <<"">>, <<"cats">>},
              seedUri : {<<>>, <<"">>, <<Uris[1]>>},
              seed_uri : {<<>>, <<Uris[1]>>},
              params : {[maxPages |-> 0, maxQuotePages |-> 0, maxNodes |-> 0]}] :
        Unsupported(req)}

\* C27: an unsupported mode, a query-mode request without query text and a
\* seed-mode request without a seed URI end in a validation error with no run
\* row inserted, no client constructed and nothing asked of network or cache
C27_RejectedBeforeAnyEffect ==
    /\ [](run.pc = "idle" => AllRefused)
    /\ [](run.pc = "rejected" =>
              /\ run.service = "ValidationError"
              /\ run.records = 0 /\ run.clients = 0 /\ run.asked = <<>>
              /\ call = IdleCall /\ cache = {} /\ client = NewClient(client.redis))
    /\ [][run.pc = "idle" =>
             \A req \in RefusedRequests :
                CreateRunAndIngest(req) =>
                   /\ run'.service = "ValidationError"
                   /\ run'.error # ""
                   /\ run'.records = 0 /\ run'.clients = 0
                   /\ run'.asked = <<>>
                   /\ client' = client /\ cache' = cache /\ call' = call]_vars

\* a seed-mode request without a seed URI was refused with nothing touched
C27_Witness ==
    /\ run.pc = "rejected"
    /\ run.service = "ValidationError"
    /\ run.error = "Seed mode requires 'seedUri' field."
    /\ run.records = 0 /\ run.clients = 0
    /\ call = IdleCall /\ client.total_requests = 0 /\ cache = {}

\* the crawl has left its with block
Left == run.pc \in {"returned", "raised"}

\* C30: in both crawl modes the client is closed exactly once on every way out
\* of the crawl, not before, and nothing is asked of it afterwards
C30_ClosedOnceOnExit ==
    /\ [](run.pc = "fetching" => run.closed = 0)
    /\ [](Left => run.closed = 1 /\ call.pc # "loop")
    /\ [][(run.pc # "idle" /\ run.closed >= 1) =>
              /\ client' = client /\ call' = call /\ cache' = cache
              /\ run'.closed = run.closed /\ run'.asked = run.asked]_vars

\* a seed crawl returned after a quotes page failed, its client closed once
\* after the requests it made
C30_Witness ==
    /\ SeedRunning /\ run.pc = "returned"
    /\ ~run.thread_failed
    /\ Len(run.asked) = 1 /\ CallFailed(call)
    /\ call.endpoint = QuotesEndpoint
    /\ run.closed = 1
    /\ client.total_requests >= 2

\* what the store holds after a call
StoreDone(op) == "last" \in DOMAIN output /\ output.last = op

\* the row of the table for a URI, <<>> if there is none
RowsFor(table, uri) == SelectSeq(table, LAMBDA row : row.uri = uri)

\* the last post of a batch for a URI
LastFor(posts, uri) ==
    posts[CHOOSE i \in DOMAIN posts :
             /\ posts[i].uri = uri
             /\ \A j \in DOMAIN posts : posts[j].uri = uri => j <= i]

\* C28: every upsert_posts call returns the number of posts passed to it and
\* leaves one row per URI: for a URI of the batch the row has every field of
\* the last post upserted with it, every other row is untouched
C28_UpsertPostsIdempotent ==
    [][\A posts \in Batches(StorePosts) :
          UpsertPosts(posts) =>
             /\ output'.exc = "" /\ output'.returned = <<Len(posts)>>
             /\ \A n \in 1..2 :
                   LET uri == Uris[n]
                       given == \E i \in DOMAIN posts : posts[i].uri = uri
                   IN  /\ Len(RowsFor(output'.posts, uri)) <= 1
                       /\ given => RowsFor(output'.posts, uri)
                                      = <<PostValues(LastFor(posts, uri))>>
                       /\ ~given => RowsFor(output'.posts, uri)
                                       = RowsFor(output.posts, uri)]_vars

\* the rows of the table with a key
RowsWith(table, key) == SelectSeq(table, LAMBDA row : Key(row) = key)

\* the first edge of a batch with a key
FirstWith(edges, key) ==
    edges[CHOOSE i \in DOMAIN edges :
             /\ Key(edges[i]) = key
             /\ \A j \in DOMAIN edges : Key(edges[j]) = key => i <= j]

\* C29: every upsert_edges call returns the number of edges passed to it and
\* leaves one row per (src, dst, type): a stored row stays as it is, timestamp
\* included, a new triple gets the row of its first edge in the batch; and
\* both dialects leave the same table
C29_UpsertEdgesFirstWins ==
    /\ [](StoreDone("upsert_edges") =>
             \A edges \in Batches(StoreEdges) :
                UpsertEdgesIn("sqlite", output.edges, edges)
                   = UpsertEdgesIn("postgresql", output.edges, edges))
    /\ [][\A edges \in Batches(StoreEdges) :
             UpsertEdges(edges) =>
                /\ output'.exc = "" /\ output'.returned = <<Len(edges)>>
                /\ \A e \in StoreEdges :
                      LET key == Key(e)
                          stored == RowsWith(output.edges, key)
                          given == \E i \in DOMAIN edges : Key(edges[i]) = key
                      IN  RowsWith(output'.edges, key) =
                             IF stored # <<>> THEN stored
                             ELSE IF given THEN <<EdgeValues(FirstWith(edges, key))>>
                             ELSE <<>>]_vars

\* on PostgreSQL a call with two edges left a single row, the earlier one
C29_Witness ==
    /\ StoreDone("upsert_edges")
    /\ config.dialect = "postgresql"
    /\ output.returned = <<2>>
    /\ Len(output.edges) = 1
    /\ output.edges[1].created_at = 600

\* the get call entered at this step got past the budget check
PassedBudgetCheck == IsGetStep /\ call'.result.exc # "RuntimeError: budget exhausted"

\* C32: a get call that misses the cache counts one miss, every network attempt
\* adds one to total_requests and one to the budget counter, so the two are
\* equal in every state and total_requests <= cache_misses * max_retries
C32_RequestsCountedTogether ==
    /\ [](client.total_requests = client.request_count)
    /\ [](client.total_requests <= client.cache_misses * config.max_retries)
    /\ [][(PassedBudgetCheck /\ ~call'.hit) =>
              /\ client'.cache_misses = client.cache_misses + 1
              /\ client'.total_requests = client.total_requests]_vars
    /\ [][IsAttemptStep =>
              /\ client'.total_requests = client.total_requests + 1
              /\ client'.request_count = client.request_count + 1
              /\ client'.cache_misses = client.cache_misses]_vars

\* two calls missed the cache and one of them used both of its attempts
C32_Witness ==
    /\ config.max_retries = 2
    /\ client.cache_misses = 2
    /\ client.total_requests = 3 /\ client.request_count = 3
    /\ call.pc = "done" /\ call.net = 2

\* the attempt ended in a transport or protocol error: no answer, or a 4xx
\* answer other than 429
EndedInError(o) ==
    o.kind = "transport_error" \/ (o.status >= 400 /\ o.status < 500 /\ o.status # 429)

\* the attempt was answered 429 or 5xx
AskedToRetry(o) == o.kind = "response" /\ (o.status = 429 \/ o.status >= 500)

\* C33: failed_requests goes up by one on every attempt that ends in a
\* transport or protocol error and on no other; a 429 or 5xx answer counts
\* among the max_retries attempts; failed_requests <= total_requests
C33_FailedRequestsCounted ==
    /\ [](client.failed_requests <= client.total_requests)
    /\ [](call.net <= config.max_retries)
    /\ [][IsAttemptStep =>
              /\ client'.failed_requests =
                    client.failed_requests + (IF EndedInError(call'.last) THEN 1 ELSE 0)
              /\ AskedToRetry(call'.last) =>
                    /\ client'.failed_requests = client.failed_requests
                    /\ call'.pc = "loop" => call'.net < config.max_retries]_vars

\* a transport error was counted, the 503 that followed was not
C33_Witness ==
    /\ call.net = 2 /\ client.total_requests = 2
    /\ call.last.status = 503
    /\ client.failed_requests = 1

RECURSIVE Pow2(_)
Pow2(k) == IF k = 0 THEN 1 ELSE 2 * Pow2(k - 1)

\* C34: the backoff of a call is min(initial_backoff * 2^k, max_backoff) after k
\* failed attempts, and the delay slept after a failed attempt (jitter aside)
\* is the backoff before that attempt's doubling, whatever the failure
C34_BaseDelayBeforeDoubling ==
    /\ [](call.pc = "loop" =>
             call.backoff = Min(config.initial_backoff * Pow2(call.attempt),
                                config.max_backoff))
    /\ [][(IsAttemptStep /\ call'.sleep.slept /\ call'.sleep.jitter) =>
              call'.sleep.base = call.backoff]_vars

\* C38: a get call that passes the budget check adds one to exactly one of
\* cache_hits and cache_misses, whatever the cache holds or does
C38_ExactlyOneOfHitAndMiss ==
    [][PassedBudgetCheck =>
          \/ /\ client'.cache_hits = client.cache_hits + 1
             /\ client'.cache_misses = client.cache_misses
          \/ /\ client'.cache_hits = client.cache_hits
             /\ client'.cache_misses = client.cache_misses + 1]_vars

\* C39: a finished get call returned, or failed with the budget error or with
\* one of the errors that end the retry loop
C39_OnlyTerminalErrors ==
    call.pc = "done" =>
        call.result.exc \in {"", "RuntimeError: budget exhausted",
                             "RuntimeError: max retries reached",
                             "RuntimeError: failed after attempts"}

\* the TTL setting of an endpoint's class
ClassTtl(cfg, endpoint) ==
    IF endpoint = SearchEndpoint THEN cfg.search_ttl
    ELSE IF endpoint = ThreadEndpoint THEN cfg.thread_ttl
    ELSE IF endpoint = QuotesEndpoint THEN cfg.quotes_ttl
    ELSE IF endpoint = PostsEndpoint THEN cfg.posts_ttl
    ELSE cfg.search_ttl

\* C35: an entry written after a successful response expires after the TTL
\* configured for the class of its endpoint: search_ttl, thread_ttl,
\* quotes_ttl or posts_ttl, overridden or not
C35_TtlOfEndpointClass ==
    \A e \in cache : e.ttl = ClassTtl(config, e.key[2])

\* the seed crawl has returned
SeedDone == SeedRunning /\ run.pc = "returned"

\* the result has an edge of this triple
HasEdge(t) == \E j \in DOMAIN run.result.edges : Triple(run.result.edges[j]) = t

\* the result has a post of this URI
HasPost(uri) == \E j \in DOMAIN run.result.posts : run.result.posts[j].uri = uri

\* C36: the result of a seed crawl has the QUOTE edge of every post extracted
\* from every quote page that was fetched, whether or not the node cap let the
\* post itself into the result
C36_QuoteEdgesSurviveCap ==
    SeedDone =>
        \A i \in DOMAIN run.quote_posts :
            HasEdge(<<run.quote_posts[i].uri, run.inputs.seed_uri, "QUOTE">>)

\* the cap kept a quoting post out of the result, its edge is there
C36_Witness ==
    /\ SeedDone
    /\ Len(run.result.posts) = run.inputs.max_nodes
    /\ \E i \in DOMAIN run.quote_posts :
          /\ ~HasPost(run.quote_posts[i].uri)
          /\ HasEdge(<<run.quote_posts[i].uri, run.inputs.seed_uri, "QUOTE">>)

\* the seed crawl asks for a quote page at this step
AsksQuotes == SeedRunning /\ run.pc = "fetching" /\ Len(run'.asked) = Len(run.asked) + 1

\* C37: a seed crawl asks for a quote page only with fewer than
\* max_quote_pages pages fetched and fewer than max_nodes posts collected, and
\* for a page after the first only if the page before returned a cursor and
\* the remaining budget is at least 10; a failed quote-page fetch ends the
\* crawl with what was collected
C37_QuotePaginationGuards ==
    /\ [][AsksQuotes =>
             /\ run'.pages_fetched < run.inputs.max_quote_pages
             /\ Len(run'.all_posts) < run.inputs.max_nodes
             /\ run'.pages_fetched >= 1 =>
                   /\ run'.cursor # ""
                   /\ GetRemainingBudget(client, config) >= 10
             /\ call'.endpoint = QuotesEndpoint
             /\ CarriesCursor(call', run'.cursor)]_vars
    /\ [][(SeedRunning /\ run.pc = "fetching" /\ run.stage = "quotes"
              /\ call.pc = "done" /\ CallFailed(call) /\ run' # run) =>
             /\ run'.pc = "returned"
             /\ run'.asked = run.asked
             /\ run'.result.posts = Take(run.all_posts, run.inputs.max_nodes)
             /\ run'.result.edges = DeduplicateEdges(run.all_edges)]_vars

\* a second quote page was asked for with room, cursor and budget left
C37_Witness ==
    /\ SeedRunning /\ run.pc = "fetching"
    /\ run.pages_fetched = 1 /\ Len(run.asked) = 2
    /\ run.cursor # "" /\ Len(run.all_posts) >= 1

\* an invocation of the service ends at this step, in this way
ServiceEndsWith(outcomes) ==
    /\ "runs" \in DOMAIN run
    /\ run' # run /\ run'.pc = "idle" /\ run'.service \in outcomes

\* C40: what an invocation wrote is committed as a whole, at the end of an
\* invocation whose crawl and persistence steps all succeeded: the run row,
\* the upserted posts and edges, the links.  An invocation that fails in
\* validation, in the crawl or in a persistence step commits nothing, the run
\* row included, and leaves nothing pending
C40_AllOrNothing ==
    /\ [][ServiceEndsWith({"run_id"}) =>
             output'.committed =
                PersistSteps(CreateRun(output.committed, run.run_id, run.mode),
                             config.dialect, run.run_id, run'.result, 4)]_vars
    /\ [][ServiceEndsWith({"ValidationError", "IngestionError", "PersistenceError"}) =>
             output'.committed = output.committed]_vars
    /\ [][("runs" \in DOMAIN run /\ output'.committed # output.committed) =>
             ServiceEndsWith({"run_id"})]_vars
    /\ []("runs" \in DOMAIN run /\ run.pc = "idle" => output.tx = output.committed)

\* after a committed run, a second invocation failed in persistence and left
\* only the first run's rows
C40_Witness ==
    /\ "runs" \in DOMAIN run
    /\ run.pc = "idle" /\ run.run_id = 2 /\ run.service = "PersistenceError"
    /\ Len(run.result.posts) = 2
    /\ {r.run_id : r \in output.committed.runs} = {1}
    /\ Len(output.committed.posts) = 1
    /\ \A l \in output.committed.run_posts : l[1] = 1

\* client i acts at this step: it enters a get call or gets an answer
ActsAt(i) ==
    \/ env'.calls[i] = env.calls[i] + 1
    \/ call[i].pc = "loop" /\ call'[i].net = call[i].net + 1

\* C31: with two clients on the shared cache, a get call served from the
\* cache returns a whole payload that the upstream answered for the same
\* endpoint and parameters; every entry is such a payload; and a step of one
\* client leaves the other's budget counter, statistics and call untouched
C31_SharedCacheIsolated ==
    /\ [](\A e \in cache :
             /\ e.val.text = "json"
             /\ e.val.data \in SharedPayloads
             /\ \E a \in env.answered : e.key = MakeCacheKey(a[1], a[2]) /\ e.val.data = a[3])
    /\ [][\A i \in Clients :
             (env'.calls[i] = env.calls[i] + 1 /\ call'[i].hit) =>
                <<call'[i].endpoint, SortKeys(call'[i].params), call'[i].result.value>>
                    \in env.answered]_vars
    /\ [][\A i \in Clients : \A j \in Clients \ {i} :
             ActsAt(j) => client'[i] = client[i] /\ call'[i] = call[i]]_vars

\* both clients missed and wrote one after the other; client 1 then read the
\* later payload, written by client 2
C31_Witness ==
    /\ "answered" \in DOMAIN env
    /\ call[1].pc = "done" /\ call[1].hit
    /\ call[1].result.value = [tag |-> "obj", id |-> "B"]
    /\ client[1].total_requests = 1 /\ client[1].cache_hits = 1
    /\ client[2].total_requests = 1 /\ client[2].cache_hits = 0
    /\ call[2].wrote /\ call[2].result.value = [tag |-> "obj", id |-> "B"]
    /\ <<call[1].endpoint, SortKeys(call[1].params), [tag |-> "obj", id |-> "A"]>>
          \in env.answered

====
